---------------------------- MODULE Spec2Model ----------------------------
(***************************************************************************)
(* Record Cache of the GitHub expert finder (src/src/cache_manager.py) and *)
(* the get-or-fetch loops built on it (get_or_scrape_repos and the loop of *)
(* github_api_scraper.scrape_repositories).                                *)
(*                                                                         *)
(* The cache directory holds one index file (cache_index.json) and one     *)
(* payload file per repository.  A PRCacheManager keeps an in-memory copy  *)
(* of the index, loaded once by its constructor.                           *)
(***************************************************************************)
EXTENDS Integers, Sequences, FiniteSets, TLC

(***************************************************************************)
(* Bounds of the model.                                                    *)
(***************************************************************************)
\* the clock counts ticks; a day has TicksPerDay of them
TicksPerDay == 2
\* the clock stops advancing at MaxTime ticks
MaxTime == 2
\* max_age_days / max_cache_age_days ranges over 0..MaxAgeDays
MaxAgeDays == 1
\* a scrape returns at most MaxPRNumber PRs, numbered from 1
MaxPRNumber == 1

(***************************************************************************)
(* Values.                                                                 *)
(***************************************************************************)
\* repository names "owner/repo", as sequences of characters
Repos == { <<"a", "/", "b">>, <<"c", "/", "d">> }

\* the two PRCacheManager objects that may share the cache directory
Managers == {1, 2}

\* one scraped PR dictionary: pr_id is "<repo>#<number>"
PR(repo, n) == [repo |-> repo, number |-> n]

\* the lists a scrape of `repo` may return: the PRs 1..k of that repository
FetchLists(repo) ==
    { [i \in 1..k |-> PR(repo, i)] : k \in 0..MaxPRNumber }

\* the lists of repositories a batch call may be given: each repository at
\* most once, in any order
RepoLists ==
    { s \in UNION { [1..k -> Repos] : k \in 0..Cardinality(Repos) } :
        \A i, j \in 1..Len(s) : i # j => s[i] # s[j] }

\* datetime.isoformat(): the instant as (date, time of day)
IsoFormat(t) == << t \div TicksPerDay, t % TicksPerDay >>

\* datetime.fromisoformat()
FromIsoFormat(s) == s[1] * TicksPerDay + s[2]

\* timedelta.days of (now - cached_time): whole days, rounded down
AgeDays(t, cached_time) == (t - cached_time) \div TicksPerDay

\* str.replace('/', '_')
SafeName(repo) ==
    [i \in 1..Len(repo) |-> IF repo[i] = "/" THEN "_" ELSE repo[i]]

\* cache_dir / f"{safe_name}.json"
GetRepoCachePath(repo) == SafeName(repo) \o <<".json">>

Paths == { GetRepoCachePath(r) : r \in Repos }

(***************************************************************************)
(* Files.  A file is absent ("none"), opened for writing and not yet       *)
(* completely written ("partial": json.load fails on it), or completely    *)
(* written ("full") with the JSON document it holds.  A payload document   *)
(* also has a 'metadata' entry, which is written and never read: the model *)
(* leaves it out, and the metadata argument of cache_prs with it.          *)
(***************************************************************************)
NoDoc ==
    [repo |-> <<>>, cached_at |-> <<0, 0>>, pr_count |-> 0, prs |-> <<>>]

NoFile == [st |-> "none", doc |-> NoDoc]

\* open(cache_path, 'w'): the file exists and is truncated
OpenedPayload == [st |-> "partial", doc |-> NoDoc]

\* json.dump(cache_data, f) run to completion, file closed
WrittenPayload(cache_data) == [st |-> "full", doc |-> cache_data]

EmptyIndex == [r \in {} |-> 0]

NoIndexFile == [st |-> "none", doc |-> EmptyIndex]

\* open(index_file, 'w')
OpenedIndexFile == [st |-> "partial", doc |-> EmptyIndex]

\* json.dump(self.index, f) run to completion
WrittenIndexFile(idx) == [st |-> "full", doc |-> idx]

\* dict operations on the index
DictSet(d, k, v) == [x \in DOMAIN d \cup {k} |-> IF x = k THEN v ELSE d[x]]
DictDel(d, k) == [x \in DOMAIN d \ {k} |-> d[x]]

(***************************************************************************)
(* The cache as one manager sees it: c.index is the manager's in-memory    *)
(* index, c.index_file and c.files are the directory.                      *)
(***************************************************************************)

\* _load_index: {} when the file does not exist, else its JSON content
LoadIndex(idxfile) == idxfile.doc

\* json.load raises on a half-written index file, and so does the constructor
IndexLoadable(idxfile) == idxfile.st # "partial"

\* _save_index, run to completion
SaveIndex(c) == [c EXCEPT !.index_file = WrittenIndexFile(c.index)]

\* is_cached with `<=` where the code has `<`
IsCachedInclusive(c, repo, max_age_days, t) ==
    IF repo \notin DOMAIN c.index THEN FALSE
    ELSE AgeDays(t, FromIsoFormat(c.index[repo].cached_at)) <= max_age_days

\* is_cached(repo, max_age_days) evaluated at time t
IsCached(c, repo, max_age_days, t) ==
    IF repo \notin DOMAIN c.index THEN FALSE
    ELSE AgeDays(t, FromIsoFormat(c.index[repo].cached_at)) < max_age_days

\* get_cached_prs that prunes the entry in memory and does not save the index
GetCachedPrsUnsaved(c, repo) ==
    IF repo \notin DOMAIN c.index
    THEN [c |-> c, tag |-> "unindexed", ret |-> "None", prs |-> <<>>]
    ELSE IF c.files[GetRepoCachePath(repo)].st = "none"
    THEN [c |-> [c EXCEPT !.index = DictDel(c.index, repo)],
          tag |-> "healed", ret |-> "None", prs |-> <<>>]
    ELSE IF c.files[GetRepoCachePath(repo)].st = "partial"
    THEN [c |-> c, tag |-> "corrupt", ret |-> "None", prs |-> <<>>]
    ELSE [c |-> c, tag |-> "ok", ret |-> "list",
          prs |-> c.files[GetRepoCachePath(repo)].doc.prs]

\* get_cached_prs that prunes the entry of a payload it cannot parse
GetCachedPrsPruning(c, repo) ==
    IF repo \notin DOMAIN c.index
    THEN [c |-> c, tag |-> "unindexed", ret |-> "None", prs |-> <<>>]
    ELSE IF c.files[GetRepoCachePath(repo)].st = "none"
    THEN [c |-> SaveIndex([c EXCEPT !.index = DictDel(c.index, repo)]),
          tag |-> "healed", ret |-> "None", prs |-> <<>>]
    ELSE IF c.files[GetRepoCachePath(repo)].st = "partial"
    THEN [c |-> SaveIndex([c EXCEPT !.index = DictDel(c.index, repo)]),
          tag |-> "corrupt", ret |-> "None", prs |-> <<>>]
    ELSE [c |-> c, tag |-> "ok", ret |-> "list",
          prs |-> c.files[GetRepoCachePath(repo)].doc.prs]

\* get_cached_prs(repo): the cache afterwards, the branch taken and the value
\* returned (ret = "None" or "list"; prs is the list)
GetCachedPrs(c, repo) ==
    IF repo \notin DOMAIN c.index
    THEN [c |-> c, tag |-> "unindexed", ret |-> "None", prs |-> <<>>]
    ELSE IF c.files[GetRepoCachePath(repo)].st = "none"
    THEN [c |-> SaveIndex([c EXCEPT !.index = DictDel(c.index, repo)]),
          tag |-> "healed", ret |-> "None", prs |-> <<>>]
    ELSE IF c.files[GetRepoCachePath(repo)].st = "partial"
    THEN [c |-> c, tag |-> "corrupt", ret |-> "None", prs |-> <<>>]
    ELSE [c |-> c, tag |-> "ok", ret |-> "list",
          prs |-> c.files[GetRepoCachePath(repo)].doc.prs]

\* the cache_data dict cache_prs builds
CacheData(repo, prs, t) ==
    [repo |-> repo, cached_at |-> IsoFormat(t), pr_count |-> Len(prs),
     prs |-> prs]

\* the index entry cache_prs stores
IndexEntry(repo, prs, t) ==
    [cached_at |-> IsoFormat(t), pr_count |-> Len(prs),
     cache_file |-> GetRepoCachePath(repo)]

\* cache_prs killed at `point`: "payload_open" (the payload file is opened for
\* writing), "payload_written" (the payload is written and closed; the index
\* entry is at most in memory), "index_open" (_save_index has opened the index)
CachePrsUpTo(c, repo, prs, t, point) ==
    LET path == GetRepoCachePath(repo)
        c1 == [c EXCEPT !.files[path] = OpenedPayload]
        c2 == [c EXCEPT !.files[path] =
                   WrittenPayload(CacheData(repo, prs, t))]
        c3 == [c2 EXCEPT !.index = DictSet(c.index, repo, IndexEntry(repo, prs, t)),
                         !.index_file = OpenedIndexFile]
    IN  CASE point = "payload_open" -> c1
          [] point = "payload_written" -> c2
          [] OTHER -> c3

\* cache_prs that adds prs to the records the payload already holds
CachePrsMerging(c, repo, prs, t) ==
    LET path == GetRepoCachePath(repo)
        old == IF c.files[path].st = "full" THEN c.files[path].doc.prs ELSE <<>>
        c2 == [c EXCEPT !.files[path] =
                   WrittenPayload(CacheData(repo, old \o prs, t))]
    IN  SaveIndex([c2 EXCEPT !.index =
                       DictSet(c.index, repo, IndexEntry(repo, old \o prs, t))])

\* cache_prs(repo, prs, metadata) at time t, run to completion
CachePrs(c, repo, prs, t) ==
    LET path == GetRepoCachePath(repo)
        c2 == [c EXCEPT !.files[path] =
                   WrittenPayload(CacheData(repo, prs, t))]
    IN  SaveIndex([c2 EXCEPT !.index =
                       DictSet(c.index, repo, IndexEntry(repo, prs, t))])

\* invalidate_cache killed at `point`: "unlinked" (the payload is removed, the
\* index untouched on disk), "index_open" (_save_index has opened the index)
InvalidateCacheUpTo(c, repo, point) ==
    LET path == GetRepoCachePath(repo)
        c1 == [c EXCEPT !.files[path] = NoFile]
    IN  IF repo \notin DOMAIN c.index THEN c
        ELSE IF point = "unlinked" THEN c1
        ELSE [c1 EXCEPT !.index = DictDel(c.index, repo),
                        !.index_file = OpenedIndexFile]

\* invalidate_cache that drops the index entry and leaves the payload file
InvalidateCacheKeepingFile(c, repo) ==
    IF repo \in DOMAIN c.index
    THEN SaveIndex([c EXCEPT !.index = DictDel(c.index, repo)])
    ELSE c

\* invalidate_cache(repo), run to completion
InvalidateCache(c, repo) ==
    LET path == GetRepoCachePath(repo)
    IN  IF repo \in DOMAIN c.index
        THEN SaveIndex([c EXCEPT !.files[path] = NoFile,
                                 !.index = DictDel(c.index, repo)])
        ELSE c

\* get_cache_info(repo)
GetCacheInfo(c, repo) ==
    IF repo \in DOMAIN c.index
    THEN [ret |-> "dict", info |-> c.index[repo]]
    ELSE [ret |-> "None",
          info |-> [cached_at |-> <<0, 0>>, pr_count |-> 0, cache_file |-> <<>>]]


(***************************************************************************)
(* The get-or-fetch loops.  `outcome` is what the scrape of one repository *)
(* does: it raises (ok = FALSE) or returns the list prs.  A loop body      *)
(* yields the cache afterwards, the records it appends to all_prs, the     *)
(* branch it took, how often it called the scraper (fetches), called       *)
(* cache_prs (puts) and read the cache in the except-branch (fallbacks),   *)
(* and whether an exception leaves it (raised): the try/except lets none.  *)
(***************************************************************************)
Raises == [ok |-> FALSE, prs |-> <<>>]

Returns(prs) == [ok |-> TRUE, prs |-> prs]

Outcomes(repo) == {Raises} \cup { Returns(prs) : prs \in FetchLists(repo) }

\* `if cached_prs is not None:`
NotNone(g) == g.ret = "list"

\* `if cached_prs:` is true of a list that is not empty
Truthy(g) == g.ret = "list" /\ g.prs # <<>>

\* the loop body without the fallback read in its except branch
GetOrScrapeBodyNoFallback(c, repo, force_refresh, max_cache_age_days, outcome, t) ==
    LET fresh == ~force_refresh /\ IsCached(c, repo, max_cache_age_days, t)
        g == GetCachedPrs(c, repo)
        c1 == IF fresh THEN g.c ELSE c
    IN  IF fresh /\ Truthy(g)
        THEN [c |-> g.c, contrib |-> g.prs, branch |-> "hit",
              fetches |-> 0, puts |-> 0, fallbacks |-> 0, raised |-> FALSE]
        ELSE IF outcome.ok
        THEN [c |-> CachePrs(c1, repo, outcome.prs, t),
              contrib |-> outcome.prs, branch |-> "scraped",
              fetches |-> 1, puts |-> 1, fallbacks |-> 0, raised |-> FALSE]
        ELSE [c |-> c1, contrib |-> <<>>, branch |-> "skipped",
              fetches |-> 1, puts |-> 0, fallbacks |-> 0, raised |-> FALSE]

\* the loop body without try/except: the scraper's exception leaves it
GetOrScrapeBodyNoTry(c, repo, force_refresh, max_cache_age_days, outcome, t) ==
    LET fresh == ~force_refresh /\ IsCached(c, repo, max_cache_age_days, t)
        g == GetCachedPrs(c, repo)
        c1 == IF fresh THEN g.c ELSE c
    IN  IF fresh /\ Truthy(g)
        THEN [c |-> g.c, contrib |-> g.prs, branch |-> "hit",
              fetches |-> 0, puts |-> 0, fallbacks |-> 0, raised |-> FALSE]
        ELSE IF outcome.ok
        THEN [c |-> CachePrs(c1, repo, outcome.prs, t),
              contrib |-> outcome.prs, branch |-> "scraped",
              fetches |-> 1, puts |-> 1, fallbacks |-> 0, raised |-> FALSE]
        ELSE [c |-> c1, contrib |-> <<>>, branch |-> "skipped",
              fetches |-> 1, puts |-> 0, fallbacks |-> 0, raised |-> TRUE]

\* the body of `for repo in repos` in get_or_scrape_repos
GetOrScrapeBody(c, repo, force_refresh, max_cache_age_days, outcome, t) ==
    LET fresh == ~force_refresh /\ IsCached(c, repo, max_cache_age_days, t)
        g == GetCachedPrs(c, repo)
        c1 == IF fresh THEN g.c ELSE c
        fb == GetCachedPrs(c1, repo)
    IN  IF fresh /\ Truthy(g)
        THEN [c |-> g.c, contrib |-> g.prs, branch |-> "hit",
              fetches |-> 0, puts |-> 0, fallbacks |-> 0, raised |-> FALSE]
        ELSE IF outcome.ok
        THEN [c |-> CachePrs(c1, repo, outcome.prs, t),
              contrib |-> outcome.prs, branch |-> "scraped",
              fetches |-> 1, puts |-> 1, fallbacks |-> 0, raised |-> FALSE]
        ELSE [c |-> fb.c,
              contrib |-> IF Truthy(fb) THEN fb.prs ELSE <<>>,
              branch |-> IF Truthy(fb) THEN "fallback" ELSE "skipped",
              fetches |-> 1, puts |-> 0, fallbacks |-> 1, raised |-> FALSE]

\* the body of `for repo in repos` in scrape_repositories; without use_cache
\* there is no cache object and the cache is neither read nor written
ScrapeRepositoriesBody(c, repo, use_cache, force_refresh, max_cache_age_days, outcome, t) ==
    LET fresh == use_cache /\ ~force_refresh
                 /\ IsCached(c, repo, max_cache_age_days, t)
        g == GetCachedPrs(c, repo)
        c1 == IF fresh THEN g.c ELSE c
        fb == GetCachedPrs(c1, repo)
    IN  IF fresh /\ Truthy(g)
        THEN [c |-> g.c, contrib |-> g.prs, branch |-> "hit",
              fetches |-> 0, puts |-> 0, fallbacks |-> 0, raised |-> FALSE]
        ELSE IF outcome.ok
        THEN [c |-> IF use_cache
                    THEN CachePrs(c1, repo, outcome.prs, t)
                    ELSE c1,
              contrib |-> outcome.prs, branch |-> "scraped",
              fetches |-> 1, puts |-> IF use_cache THEN 1 ELSE 0,
              fallbacks |-> 0, raised |-> FALSE]
        ELSE IF use_cache
        THEN [c |-> fb.c,
              contrib |-> IF Truthy(fb) THEN fb.prs ELSE <<>>,
              branch |-> IF Truthy(fb) THEN "fallback" ELSE "skipped",
              fetches |-> 1, puts |-> 0, fallbacks |-> 1, raised |-> FALSE]
        ELSE [c |-> c1, contrib |-> <<>>, branch |-> "skipped",
              fetches |-> 1, puts |-> 0, fallbacks |-> 0, raised |-> FALSE]

\* a loop that tries a repository again when its pass got no records
NextRepoRetrying(i, body) == IF body.branch = "skipped" THEN i ELSE i + 1

\* the for loop moves on to the next repository, whatever the body did
NextRepo(i, body) == i + 1

(***************************************************************************)
(* The expert ranking engine (src/src/query.py).  Scores are Python floats;*)
(* the model computes them in fixed point, a score x being the integer     *)
(* x * Resolution, and every product and quotient is rounded to the        *)
(* nearest representable value, as a float operation is.                   *)
(***************************************************************************)
\* the number of representable values per unit of score
Resolution == 100

\* from config.py
MIN_SUBSTANTIAL_PR_LINES == 100
MIN_EXPERT_PRS == 2
MIN_EXPERT_TOTAL_LINES == 500

\* the literals of find_experts' top-up rule: `>= 20`, `max(10, 20 - len(...))`
TopUpTotal == 20
TopUpFloor == 10

\* decay_rate = 0.001 per day halves a score every ln(2)/0.001 = 693 days
HalfLifeDays == 693

\* math.exp raises OverflowError beyond 2^1024
MaxExponent == 1024

Min(a, b) == IF a < b THEN a ELSE b

Max(a, b) == IF a > b THEN a ELSE b

\* num / den rounded to the nearest integer (den > 0)
Round(num, den) == (2 * num + den) \div (2 * den)

\* the float 1.0
One == Resolution

\* the float of the literal n/d (0.15 is Lit(15, 100)), and of int / int
Lit(n, d) == Round(n * Resolution, d)

\* a * b of two floats
Mul(a, b) == Round(a * b, Resolution)

\* a / b of two floats
Div(a, b) == Round(a * Resolution, b)

RECURSIVE SeqSum(_)
\* sum(s) of a list of numbers
SeqSum(s) == IF s = <<>> THEN 0 ELSE s[1] + SeqSum(Tail(s))

\* s.sort(key=..., reverse=True), key[i] being the key of s[i]: descending by
\* key, elements of equal key staying in the order they had
SortedDesc(s, key) ==
    LET n == Len(s)
        rank == [i \in 1..n |->
                    1 + Cardinality({ j \in 1..n :
                            \/ key[j] > key[i]
                            \/ key[j] = key[i] /\ j < i })]
    IN  [p \in 1..n |-> s[CHOOSE i \in 1..n : rank[i] = p]]

\* s[:n] for n >= 0
Take(s, n) == SubSeq(s, 1, Min(n, Len(s)))

\* merged_date strings: '' (no merge date), one that fromisoformat rejects,
\* and isoformat() of an instant
NoDate == <<>>

Unparseable == << "?" >>

\* datetime.fromisoformat(merged_date) returns rather than raises
Parses(merged_date) == Len(merged_date) = 2

\* math.exp(-decay_rate * age_days) raises OverflowError
ExpOverflows(age_days) == age_days \div HalfLifeDays < 0 - MaxExponent

\* math.exp(-decay_rate * age_days), to the half-life: 1, 1/2, 1/4, ... for
\* ages of 0, 693, 1386, ... days, and 2, 4, ... for merge dates in the future
Exp(age_days) ==
    LET halvings == age_days \div HalfLifeDays
    IN  IF halvings >= 0
        THEN Round(One, 2 ^ halvings)
        ELSE One * 2 ^ (0 - halvings)

\* timedelta.days of (now - merge_dt), rounded up where the code rounds down
MergedAgeDaysCeiling(t, merge_dt) == 0 - ((merge_dt - t) \div TicksPerDay)

\* (now - merge_dt).days
MergedAgeDays(t, merge_dt) == AgeDays(t, merge_dt)

\* _calculate_recency_score without the clamp to [0, 1]
CalculateRecencyScoreUnclamped(merged_date, t) ==
    IF merged_date = NoDate THEN 0
    ELSE IF ~Parses(merged_date) THEN 0
    ELSE LET age_days == MergedAgeDays(t, FromIsoFormat(merged_date))
         IN  IF ExpOverflows(age_days) THEN 0 ELSE Exp(age_days)

\* _calculate_recency_score(merged_date) called at time t
CalculateRecencyScore(merged_date, t) ==
    IF merged_date = NoDate THEN 0
    ELSE IF ~Parses(merged_date) THEN 0
    ELSE LET age_days == MergedAgeDays(t, FromIsoFormat(merged_date))
         IN  IF ExpOverflows(age_days) THEN 0
             ELSE Max(0, Min(One, Exp(age_days)))

\* pr.get('author', '') that falls back to a placeholder name
AuthorOfDefaulting(pr) == IF pr.author = "" THEN "unknown" ELSE pr.author

\* pr.get('author', '')
AuthorOf(pr) == pr.author

\* size_boost without the cap of lines_normalized at 1.0
SizeBoostUncapped(pr) ==
    LET lines == pr.lines_changed
        lines_normalized == Lit(lines, 5000)
    IN  IF lines >= MIN_SUBSTANTIAL_PR_LINES
        THEN Mul(Lit(15, 100), lines_normalized)
        ELSE Mul(Lit(5, 100), lines_normalized)

\* size_boost of combined_score
SizeBoost(pr) ==
    LET lines == pr.lines_changed
        lines_normalized == Min(Lit(lines, 5000), One)
    IN  IF lines >= MIN_SUBSTANTIAL_PR_LINES
        THEN Mul(Lit(15, 100), lines_normalized)
        ELSE Mul(Lit(5, 100), lines_normalized)

\* 1.0 + size_boost + complexity_boost + impact_boost + quality_boost
Multiplier(pr) ==
    LET size_boost == SizeBoost(pr)
        complexity_boost == Mul(pr.complexity_score, Lit(10, 100))
        impact_boost == Mul(pr.impact_score, Lit(8, 100))
        quality_boost ==
            (IF pr.has_tests THEN Lit(3, 100) ELSE 0)
            + (IF pr.has_docs THEN Lit(2, 100) ELSE 0)
            + (IF pr.review_comments_count > 5 THEN Lit(3, 100) ELSE 0)
    IN  One + size_boost + complexity_boost + impact_boost + quality_boost

\* combined_score(pr): similarity with its size, complexity, impact and
\* quality boosts
CombinedScore(pr) == Mul(pr.similarity_score, Multiplier(pr))

\* the keys of author_prs in insertion order: the authors that are not empty,
\* each where it is first met in prs
AuthorsInOrder(prs) ==
    LET firsts == SelectSeq([i \in 1..Len(prs) |-> i],
                      LAMBDA i : /\ AuthorOf(prs[i]) # ""
                                 /\ \A j \in 1..(i - 1) :
                                        AuthorOf(prs[j]) # AuthorOf(prs[i]))
    IN  [k \in 1..Len(firsts) |-> AuthorOf(prs[firsts[k]])]

\* author_prs[author] that holds the author's first PR only
AuthorPrsFirstOnly(prs, author) ==
    Take(SelectSeq(prs, LAMBDA pr : AuthorOf(pr) = author), 1)

\* author_prs[author]
AuthorPrs(prs, author) == SelectSeq(prs, LAMBDA pr : AuthorOf(pr) = author)

\* tech_frequency: how often each keyword occurs in the author's PRs
TechFrequency(prs_list) ==
    LET techs == UNION { { pr.tech_keywords[i] : i \in DOMAIN pr.tech_keywords } :
                         pr \in { prs_list[k] : k \in DOMAIN prs_list } }
    IN  [tech \in techs |->
            SeqSum([k \in 1..Len(prs_list) |->
                Cardinality({ i \in DOMAIN prs_list[k].tech_keywords :
                                prs_list[k].tech_keywords[i] = tech })])]

RECURSIVE SumOver(_, _)
\* the sum of f over the set S
SumOver(f, S) ==
    IF S = {} THEN 0
    ELSE LET x == CHOOSE x \in S : TRUE IN f[x] + SumOver(f, S \ {x})

\* tech_depth_score: the mean count of the three most frequent keywords, over
\* 5 and capped at 1.0
TechDepthScore(tech_frequency) ==
    IF DOMAIN tech_frequency = {} THEN 0
    ELSE LET techs == DOMAIN tech_frequency
             n == Min(3, Cardinality(techs))
             top_techs == CHOOSE T \in SUBSET techs :
                              /\ Cardinality(T) = n
                              /\ \A a \in T, b \in techs \ T :
                                     tech_frequency[a] >= tech_frequency[b]
             avg_top_frequency == Lit(SumOver(tech_frequency, top_techs), n)
         IN  Min(Round(avg_top_frequency, 5), One)

\* weighted_avg of the author's five best combined scores
WeightedAvg(prs_list) ==
    LET top_5_scores == [i \in 1..Min(5, Len(prs_list)) |->
                            CombinedScore(prs_list[i])]
        all_weights == << One, Lit(8, 10), Lit(6, 10), Lit(4, 10), Lit(2, 10) >>
        weights == Take(all_weights, Len(top_5_scores))
    IN  Div(SeqSum([i \in 1..Len(weights) |-> Mul(top_5_scores[i], weights[i])]),
            SeqSum(weights))

\* substantial_count: the author's PRs of MIN_SUBSTANTIAL_PR_LINES lines or
\* more
SubstantialCount(prs_list) ==
    Len(SelectSeq(prs_list,
            LAMBDA pr : pr.lines_changed >= MIN_SUBSTANTIAL_PR_LINES))

\* similarity_score of an author
SimilarityScore(prs_list) ==
    LET volume_boost == Min(Lit(Len(prs_list), 10), One)
        substantial_count == SubstantialCount(prs_list)
        substantial_boost == Min(Lit(substantial_count, 5), Lit(2, 10))
        tech_specialization_boost ==
            Mul(TechDepthScore(TechFrequency(prs_list)), Lit(15, 100))
    IN  Mul(Mul(WeightedAvg(prs_list),
                Lit(7, 10) + Mul(Lit(3, 10), volume_boost)),
            One + substantial_boost + tech_specialization_boost)

\* a final score that leaves the similarity weight at 1
FinalScoreAdding(similarity_score, recency_score, recency_weight) ==
    similarity_score + Mul(recency_score, recency_weight)

\* final_score = similarity_score * (1 - recency_weight)
\*               + recency_score * recency_weight
FinalScore(similarity_score, recency_score, recency_weight) ==
    Mul(similarity_score, One - recency_weight)
    + Mul(recency_score, recency_weight)

\* prs_list.sort(key=combined_score, reverse=True) that puts PRs of equal
\* score in the reverse of the order they had
PrsListTiesReversed(author_prs) ==
    LET n == Len(author_prs)
        key == [i \in 1..n |-> CombinedScore(author_prs[i])]
        rank == [i \in 1..n |->
                    1 + Cardinality({ j \in 1..n :
                            \/ key[j] > key[i]
                            \/ key[j] = key[i] /\ j > i })]
    IN  [p \in 1..n |-> author_prs[CHOOSE i \in 1..n : rank[i] = p]]

\* prs_list after prs_list.sort(key=combined_score, reverse=True)
PrsList(author_prs) ==
    SortedDesc(author_prs,
        [i \in DOMAIN author_prs |-> CombinedScore(author_prs[i])])

\* the 'best_pr' dictionary of a profile (the fields the model has)
BestPr(best_pr) ==
    [tech_keywords |-> best_pr.tech_keywords,
     merged_date |-> best_pr.merged_date,
     similarity |-> best_pr.similarity_score,
     complexity_score |-> best_pr.complexity_score]

\* one element of the 'top_prs' list of a profile
TopPr(pr) ==
    [similarity |-> pr.similarity_score, lines_changed |-> pr.lines_changed]

\* 'top_prs' built from prs_list[1:4]
TopPrsSkippingBest(prs_list) ==
    [i \in 1..Min(3, Len(prs_list) - 1) |-> TopPr(prs_list[i + 1])]

\* 'top_prs': prs_list[:3], each as its dictionary
TopPrs(prs_list) == [i \in 1..Min(3, Len(prs_list)) |-> TopPr(prs_list[i])]

\* the expert dictionary of one author, from the author's PRs in the order
\* they were met (the fields the ranking reads, and the best PR's merge date)
Expert(author, author_prs, recency_weight, t) ==
    LET prs_list == PrsList(author_prs)
        best_pr == prs_list[1]
        similarity_score == SimilarityScore(prs_list)
        recency_score == CalculateRecencyScore(best_pr.merged_date, t)
    IN  [author |-> author,
         score |-> FinalScore(similarity_score, recency_score, recency_weight),
         similarity_score |-> similarity_score,
         recency_score |-> recency_score,
         tech_depth_score |-> TechDepthScore(TechFrequency(prs_list)),
         merged_date |-> best_pr.merged_date,
         best_pr |-> BestPr(best_pr),
         top_prs |-> TopPrs(prs_list),
         total_relevant_prs |-> Len(prs_list),
         total_lines_changed |->
             SeqSum([i \in 1..Len(prs_list) |-> prs_list[i].lines_changed]),
         substantial_prs_count |-> SubstantialCount(prs_list)]

\* the minimum requirement with `and` where the code has `or`
MeetsCriteriaBoth(expert) ==
    /\ expert.total_relevant_prs >= MIN_EXPERT_PRS
    /\ expert.total_lines_changed >= MIN_EXPERT_TOTAL_LINES

\* pr_count >= MIN_EXPERT_PRS or total_lines >= MIN_EXPERT_TOTAL_LINES
MeetsCriteria(expert) ==
    \/ expert.total_relevant_prs >= MIN_EXPERT_PRS
    \/ expert.total_lines_changed >= MIN_EXPERT_TOTAL_LINES

\* the filter without `filtered_experts = experts` when none qualifies
MinExpertFilterNoFallback(experts) == SelectSeq(experts, MeetsCriteria)

\* the last step of _rank_experts: the experts that meet the criteria, or all
\* of them when none does
MinExpertFilter(experts) ==
    LET filtered_experts == SelectSeq(experts, MeetsCriteria)
    IN  IF filtered_experts # <<>> THEN filtered_experts ELSE experts

\* the experts list after experts.sort(key=score, reverse=True)
SortedExperts(prs, recency_weight, t) ==
    LET authors == AuthorsInOrder(prs)
        experts == [i \in 1..Len(authors) |->
                       Expert(authors[i], AuthorPrs(prs, authors[i]),
                              recency_weight, t)]
    IN  SortedDesc(experts, [i \in DOMAIN experts |-> experts[i].score])

\* _rank_experts(prs, recency_weight) called at time t
RankExperts(prs, recency_weight, t) ==
    MinExpertFilter(SortedExperts(prs, recency_weight, t))

\* the substantiality step topping up with smaller_prs[:10] whatever the
\* number of substantial PRs
SubstantialityFilterFloorOnly(results) ==
    LET substantial_prs ==
            SelectSeq(results,
                LAMBDA pr : pr.lines_changed >= MIN_SUBSTANTIAL_PR_LINES)
        smaller ==
            SelectSeq(results,
                LAMBDA pr : pr.lines_changed < MIN_SUBSTANTIAL_PR_LINES)
        smaller_prs ==
            SortedDesc(smaller,
                [i \in DOMAIN smaller |-> smaller[i].lines_changed])
    IN  IF substantial_prs = <<>> THEN results
        ELSE IF Len(substantial_prs) >= TopUpTotal THEN substantial_prs
        ELSE substantial_prs \o Take(smaller_prs, TopUpFloor)

\* the substantiality step of find_experts, on the sorted results
SubstantialityFilter(results) ==
    LET substantial_prs ==
            SelectSeq(results,
                LAMBDA pr : pr.lines_changed >= MIN_SUBSTANTIAL_PR_LINES)
        smaller ==
            SelectSeq(results,
                LAMBDA pr : pr.lines_changed < MIN_SUBSTANTIAL_PR_LINES)
        smaller_prs ==
            SortedDesc(smaller,
                [i \in DOMAIN smaller |-> smaller[i].lines_changed])
    IN  IF substantial_prs = <<>> THEN results
        ELSE IF Len(substantial_prs) >= TopUpTotal THEN substantial_prs
        ELSE substantial_prs
             \o Take(smaller_prs,
                     Max(TopUpFloor, TopUpTotal - Len(substantial_prs)))

\* the list _rank_experts is given: the search results sorted by similarity,
\* then through the substantiality step
RankedInput(results) ==
    SubstantialityFilter(
        SortedDesc(results,
            [i \in DOMAIN results |-> results[i].similarity_score]))

\* experts[:top_n + 1]
TopExpertsOneMore(experts, top_n) == Take(experts, top_n + 1)

\* experts[:top_n]
TopExperts(experts, top_n) == Take(experts, top_n)

\* generate_embedding: the provider's vector, or on its failure the zero
\* vector; never an exception
GenerateEmbedding(provider_ok) == IF provider_ok THEN "vector" ELSE "zeros"

\* what db.search does: it raises (ok = FALSE) or returns the list results
SearchRaises == [ok |-> FALSE, results |-> <<>>]

SearchReturns(results) == [ok |-> TRUE, results |-> results]

\* find_experts(query, top_n, tech_filter, repo_filter, recency_weight) called
\* at time t, `search` being what db.search does for the query's vector: the
\* value returned, or raised = TRUE when the exception of db.search leaves it
FindExperts(search, top_n, recency_weight, t) ==
    IF ~search.ok
    THEN [raised |-> TRUE, experts |-> <<>>]
    ELSE [raised |-> FALSE,
          experts |-> TopExperts(RankExperts(RankedInput(search.results),
                                             recency_weight, t),
                                 top_n)]

(***************************************************************************)
(* The indexing pipeline: PREmbedder (src/src/embedder.py), the text it    *)
(* embeds (src/src/utils.py) and QdrantDB (src/src/vector_db.py).  A text  *)
(* is a sequence of characters; a dictionary is a function whose domain is *)
(* its keys.                                                               *)
(***************************************************************************)
\* d.get(k, default)
Get(d, k, default) == IF k \in DOMAIN d THEN d[k] ELSE default

\* the characters of \s, and those [^\w\s\-.,!?] leaves in place
Whitespace == {" ", "\n"}

WordChars == {"F", "i", "x", "1"}

Punctuation == {"-", ".", ",", "!", "?"}

RECURSIVE CollapseSpaces(_)
\* re.sub(r'\s+', ' ', text)
CollapseSpaces(text) ==
    IF text = <<>> THEN <<>>
    ELSE IF Head(text) \notin Whitespace
         THEN << Head(text) >> \o CollapseSpaces(Tail(text))
    ELSE IF Len(text) > 1 /\ text[2] \in Whitespace
         THEN CollapseSpaces(Tail(text))
    ELSE << " " >> \o CollapseSpaces(Tail(text))

\* re.sub(r'[^\w\s\-.,!?]', '', text)
RemoveSpecial(text) ==
    SelectSeq(text, LAMBDA ch : ch \in WordChars \cup Whitespace \cup Punctuation)

RECURSIVE Strip(_)
\* text.strip()
Strip(text) ==
    IF text = <<>> THEN <<>>
    ELSE IF Head(text) \in Whitespace THEN Strip(Tail(text))
    ELSE IF text[Len(text)] \in Whitespace
         THEN Strip(SubSeq(text, 1, Len(text) - 1))
    ELSE text

\* clean_text(text)
CleanText(text) ==
    IF text = <<>> THEN <<>> ELSE Strip(RemoveSpecial(CollapseSpaces(text)))

RECURSIVE Join(_, _)
\* sep.join(parts)
Join(sep, parts) ==
    IF parts = <<>> THEN <<>>
    ELSE IF Len(parts) = 1 THEN parts[1]
    ELSE parts[1] \o sep \o Join(sep, Tail(parts))

\* format_pr_text_for_embedding(title, description, tech_keywords): '' when
\* nothing is left of the three
FormatPrTextForEmbedding(title, description, tech_keywords) ==
    LET clean_title == IF title # <<>> THEN CleanText(title) ELSE <<>>
        cleaned == IF description # <<>> THEN CleanText(description) ELSE <<>>
        clean_description ==
            IF Len(cleaned) > 500
            THEN SubSeq(cleaned, 1, 500) \o << ".", ".", "." >>
            ELSE cleaned
        tech_text ==
            << "Technologies: " >>
            \o Join(<< ", " >>, [i \in DOMAIN tech_keywords |-> << tech_keywords[i] >>])
        components ==
            (IF clean_title # <<>> THEN << clean_title >> ELSE <<>>)
            \o (IF clean_description # <<>> THEN << clean_description >> ELSE <<>>)
            \o (IF tech_keywords # <<>> THEN << tech_text >> ELSE <<>>)
    IN  Join(<< ". " >>, components)

\* the vector the provider computes for a text, and [0.0] * self.dimension
EmbeddingOf(text) == << "embedding", text >>

Zeros == << "zeros" >>

\* list.insert(idx, x), idx counted from 0
ListInsert(list, idx, x) ==
    IF idx >= Len(list) THEN Append(list, x)
    ELSE SubSeq(list, 1, idx) \o << x >> \o SubSeq(list, idx + 1, Len(list))

RECURSIVE InsertAll(_, _, _)
\* the loops over uncached_indices: batch_embeddings.insert(idx, ...) for each
\* of them in turn, embedding[idx] being what is inserted for idx
InsertAll(batch_embeddings, uncached_indices, embedding) ==
    IF uncached_indices = <<>> THEN batch_embeddings
    ELSE InsertAll(ListInsert(batch_embeddings, Head(uncached_indices),
                              embedding[Head(uncached_indices)]),
                   Tail(uncached_indices), embedding)

\* generate_embeddings_batch(texts) for at most batch_size texts, the set
\* `cache` being the texts self.cache holds and provider_ok saying whether the
\* provider's batch call returns: the list of embeddings
GenerateEmbeddingsBatch(texts, cache, provider_ok) ==
    LET batch == texts
        indices == [i \in 1..Len(batch) |-> i - 1]
        cached == SelectSeq(indices, LAMBDA idx : batch[idx + 1] \in cache)
        uncached_indices ==
            SelectSeq(indices, LAMBDA idx : batch[idx + 1] \notin cache)
        batch_embeddings ==
            [k \in 1..Len(cached) |-> EmbeddingOf(batch[cached[k] + 1])]
        embedding == [idx \in 0..(Len(batch) - 1) |->
                         IF provider_ok THEN EmbeddingOf(batch[idx + 1])
                         ELSE Zeros]
    IN  InsertAll(batch_embeddings, uncached_indices, embedding)

\* the text embed_prs formats for a PR
TextOf(pr) ==
    FormatPrTextForEmbedding(Get(pr, "title", <<>>), Get(pr, "description", <<>>),
                             Get(pr, "tech_keywords", <<>>))

\* embed_prs(prs): raised = TRUE when an IndexError leaves it, else the list
\* it returns.  The loop `for pr_idx, embedding_idx in enumerate(valid_indices)`
\* binds pr_idx to the position in valid_indices and embedding_idx to the
\* position in prs, both counted from 0.
EmbedPrs(prs, cache, provider_ok) ==
    LET indices == [i \in 1..Len(prs) |-> i - 1]
        valid_indices == SelectSeq(indices, LAMBDA idx : TextOf(prs[idx + 1]) # <<>>)
        texts == [k \in 1..Len(valid_indices) |-> TextOf(prs[valid_indices[k] + 1])]
        embeddings == GenerateEmbeddingsBatch(texts, cache, provider_ok)
        index_error ==
            \E k \in DOMAIN valid_indices :
                \/ valid_indices[k] >= Len(texts)
                \/ valid_indices[k] >= Len(embeddings)
    IN  IF index_error
        THEN [raised |-> TRUE, embedded_prs |-> <<>>]
        ELSE [raised |-> FALSE,
              embedded_prs |->
                  [k \in 1..Len(valid_indices) |->
                      LET pr_idx == k - 1
                          embedding_idx == valid_indices[k]
                      IN  [text_for_embedding |-> texts[embedding_idx + 1],
                           embedding |-> embeddings[embedding_idx + 1]]
                          @@ prs[pr_idx + 1]]]

\* the payload upload_prs stores for a PR
Payload(pr) ==
    [pr_id |-> Get(pr, "pr_id", ""),
     title |-> Get(pr, "title", <<>>),
     description |-> Get(pr, "description", <<>>),
     author |-> Get(pr, "author", ""),
     tech_keywords |-> Get(pr, "tech_keywords", <<>>),
     lines_changed |-> Get(pr, "lines_changed", 0),
     merged_date |-> Get(pr, "merged_date", NoDate),
     text_for_embedding |-> Get(pr, "text_for_embedding", <<>>)]

\* the collection before the first upload
NoPoints == << >>

\* upload_prs(prs) on a collection holding `points`: the PRs that have an
\* embedding are upserted, each under its position in prs counted from 0
UploadPrs(points, prs) ==
    LET ids == { idx \in 0..(Len(prs) - 1) :
                   /\ "embedding" \in DOMAIN prs[idx + 1]
                   /\ prs[idx + 1].embedding # <<>> }
    IN  [id \in ids \cup DOMAIN points |->
            IF id \in ids
            THEN [vector |-> prs[id + 1].embedding,
                  payload |-> Payload(prs[id + 1])]
            ELSE points[id]]

\* the score of a point for a query: cosine similarity, 1.0 for the vector of
\* the query's own text and 0.0 with a zero vector
CosineScore(query_vector, vector) ==
    IF query_vector = Zeros \/ vector = Zeros THEN 0
    ELSE IF query_vector = vector THEN One
    ELSE Lit(5, 10)

RECURSIVE Ascending(_)
\* the numbers of a set in ascending order
Ascending(S) ==
    IF S = {} THEN <<>>
    ELSE LET least == CHOOSE x \in S : \A y \in S : x <= y
         IN  << least >> \o Ascending(S \ {least})

\* search(query_vector, limit): the `limit` best points of the collection,
\* best first, each as its payload with the key similarity_score added
Search(points, query_vector, limit) ==
    LET by_id == Ascending(DOMAIN points)
        hits == SortedDesc(by_id,
                    [k \in DOMAIN by_id |->
                        CosineScore(query_vector, points[by_id[k]].vector)])
        results == Take(hits, limit)
    IN  [k \in DOMAIN results |->
            [similarity_score |->
                 CosineScore(query_vector, points[results[k]].vector)]
            @@ points[results[k]].payload]

\* a search result as combined_score reads it: pr.get(key, default) for the
\* keys it reads
Defaulted(pr_data) ==
    [similarity_score |-> Get(pr_data, "similarity_score", 0),
     lines_changed |-> Get(pr_data, "lines_changed", 0),
     complexity_score |-> Get(pr_data, "complexity_score", Lit(5, 10)),
     impact_score |-> Get(pr_data, "impact_score", Lit(5, 10)),
     has_tests |-> Get(pr_data, "has_tests", FALSE),
     has_docs |-> Get(pr_data, "has_docs", FALSE),
     review_comments_count |-> Get(pr_data, "review_comments_count", 0),
     merged_date |-> Get(pr_data, "merged_date", NoDate),
     tech_keywords |-> Get(pr_data, "tech_keywords", <<>>),
     author |-> Get(pr_data, "author", "")]

(***************************************************************************)
(* GitHubAPIScraper (src/src/github_api_scraper.py).  `upstream` is the    *)
(* list of merged PRs the repository has, fewer than one page of search    *)
(* results; `net` says which requests of the scrape fail (HTTP error, rate *)
(* limit, network): the search, its retry without date filter, and the     *)
(* details request of the PRs numbered in net.details.                     *)
(***************************************************************************)
\* the retry is made only when the search failed
Nets ==
    { net \in [search : {"ok", "error"}, retry : {"ok", "error"},
               details : SUBSET (1..MaxPRNumber)] :
          net.search = "ok" => net.retry = "ok" }

\* the merged PRs of `repo` on GitHub
Upstream(repo) == [i \in 1..MaxPRNumber |-> PR(repo, i)]

\* _make_request: the JSON of the response, or None on any error
MakeRequest(response) == IF response = "ok" THEN "data" ELSE "None"

\* a request of the scrape of `upstream` under `net` fails
HitsError(upstream, net) ==
    \/ net.search = "error"
    \/ \E i \in DOMAIN upstream : upstream[i].number \in net.details

\* _fetch_pr_details(repo, pr_number): the PR dictionary, or None when the
\* request fails
FetchPrDetails(pr, net) ==
    MakeRequest(IF pr.number \in net.details THEN "error" ELSE "ok")

\* scrape_repo_prs(repo): what it does as the loop sees it; it returns the
\* list prs, having caught every error of its requests
ScrapeRepoPrs(upstream, net) ==
    IF MakeRequest(net.search) = "None" /\ MakeRequest(net.retry) = "None"
    THEN Returns(<<>>)
    ELSE Returns(SelectSeq(upstream,
                     LAMBDA pr : FetchPrDetails(pr, net) # "None"))

(***************************************************************************)
(* State.                                                                  *)
(***************************************************************************)
VARIABLES
    now,          \* datetime.now(), in ticks
    index,        \* index[m]: self.index of manager m
    up,           \* up[m]: manager m is constructed (its constructor returned)
    index_file,   \* cache_index.json
    files,        \* files[path]: the payload file at path
    last,         \* the last call made on the manager and the branch it took
    done,         \* done[m]: the call manager m made as a concurrent caller
    run,          \* the last batch call (get_or_scrape_repos or
                  \* scrape_repositories): its arguments, position and record
    finder,       \* the calls of ExpertFinder.find_experts made so far
    blend,        \* one evaluation of the final-score expression
    pipeline,     \* the last scrape of one repository by GitHubAPIScraper
                  \* inside scrape_repositories
    indexing,     \* one run of embed_prs, upload_prs and search
    scored,       \* one evaluation of combined_score
    store,        \* a cache directory whose repository names share a
                  \* payload path, and its one manager
    runs          \* two calls of get_or_scrape_repos in a row: when each
                  \* was made and what its passes did

vars == << now, index, up, index_file, files, last, done, run,
           finder, blend, pipeline, indexing, scored, store, runs >>

\* the state of the ranking engine and of the scraper, which the calls on the
\* cache manager leave alone
engine == << finder, blend, pipeline, indexing, scored, store, runs >>

\* the state of the cache directory and its managers
directory == << index, up, index_file, files, last, done, run >>

\* the cache as manager m sees it
View(m) == [index |-> index[m], index_file |-> index_file, files |-> files]

\* manager m's call leaves the cache as c
Commit(m, c) ==
    /\ index' = [index EXCEPT ![m] = c.index]
    /\ index_file' = c.index_file
    /\ files' = c.files

NoCall == [op |-> "none", tag |-> "none"]

NotDone == [op |-> "none", repo |-> <<>>]

Call(op, tag) == [op |-> op, tag |-> tag]

IdleRun ==
    [status |-> "idle", kind |-> "none", use_cache |-> TRUE, repos |-> <<>>,
     i |-> 1, force_refresh |-> FALSE, max_age |-> 0,
     all_prs |-> <<>>, log |-> <<>>]

\* no call of find_experts is in hand
NoFinder ==
    [status |-> "idle", query_vector |-> "none",
     search |-> SearchReturns(<<>>), top_n |-> 0, recency_weight |-> 0,
     at |-> 0, experts |-> <<>>,
     again |-> FALSE, again_at |-> 0, again_experts |-> <<>>]

\* the final-score expression has not been evaluated
NoBlend ==
    [done |-> FALSE, similarity_score |-> 0, merged_date |-> NoDate,
     recency_weight |-> 0, recency_score |-> 0, score |-> 0]

\* scrape_repositories has scraped nothing
NoScrape ==
    [repo |-> <<>>, error |-> FALSE, pre |-> "none", pre_prs |-> <<>>,
     branch |-> "none", contrib |-> <<>>, fetches |-> 0]

\* before embed_prs is called
NoIndexing ==
    [stage |-> "idle", prs |-> <<>>, cache |-> {}, provider_ok |-> TRUE,
     raised |-> FALSE, embedded_prs |-> <<>>, points |-> NoPoints,
     query_vector |-> Zeros, results |-> <<>>]

\* before combined_score is evaluated
NotScored ==
    [done |-> FALSE, pr |-> << >>, size_boost |-> 0, multiplier |-> 0,
     combined |-> 0]

\* repository names of which two, differing by '/' against '_', have one
\* payload path
SharingRepos ==
    { <<"a", "/", "b", "_", "c">>, <<"a", "_", "b", "/", "c">>,
      <<"c", "/", "d">> }

\* the manager of an empty cache directory that is given those names
EmptyStore ==
    [index |-> EmptyIndex, index_file |-> NoIndexFile,
     files |-> [p \in { GetRepoCachePath(r) : r \in SharingRepos } |-> NoFile]]

\* an empty cache directory, one manager constructed on it
Init ==
    /\ now = 0
    /\ index = [m \in Managers |-> EmptyIndex]
    /\ up = [m \in Managers |-> m = 1]
    /\ index_file = NoIndexFile
    /\ files = [p \in Paths |-> NoFile]
    /\ last = NoCall
    /\ done = [m \in Managers |-> NotDone]
    /\ run = IdleRun
    /\ finder = NoFinder
    /\ blend = NoBlend
    /\ pipeline = NoScrape
    /\ indexing = NoIndexing
    /\ scored = NotScored
    /\ store = EmptyStore
    /\ runs = <<>>

\* time passes
Tick ==
    /\ now < MaxTime
    /\ now' = now + 1
    /\ UNCHANGED << index, up, index_file, files, last, done, run >>
    /\ UNCHANGED engine

\* no batch call is running: the process is free to call its manager
Free(m) == up[m] /\ run.status # "running"

\* a call of is_cached(repo, n)
DoIsCached(m, repo, n) ==
    /\ Free(m)
    /\ last' = Call("is_cached",
                    IF IsCached(View(m), repo, n, now) THEN "True" ELSE "False")
    /\ run' = IdleRun
    /\ UNCHANGED << now, index, up, index_file, files, done >>
    /\ UNCHANGED engine

\* a call of get_cached_prs(repo)
DoGetCachedPrs(m, repo) ==
    /\ Free(m)
    /\ LET g == GetCachedPrs(View(m), repo)
       IN  /\ Commit(m, g.c)
           /\ last' = Call("get_cached_prs", g.tag)
    /\ run' = IdleRun
    /\ UNCHANGED << now, up, done >>
    /\ UNCHANGED engine

\* a call of cache_prs(repo, prs, metadata)
DoCachePrs(m, repo, prs) ==
    /\ Free(m)
    /\ Commit(m, CachePrs(View(m), repo, prs, now))
    /\ last' = Call("cache_prs",
                    IF repo \in DOMAIN index[m] THEN "overwrite" ELSE "new")
    /\ run' = IdleRun
    /\ UNCHANGED << now, up, done >>
    /\ UNCHANGED engine

\* a call of invalidate_cache(repo)
DoInvalidateCache(m, repo) ==
    /\ Free(m)
    /\ Commit(m, InvalidateCache(View(m), repo))
    /\ last' = Call("invalidate_cache",
                    IF repo \in DOMAIN index[m] THEN "removed" ELSE "noop")
    /\ run' = IdleRun
    /\ UNCHANGED << now, up, done >>
    /\ UNCHANGED engine

\* PRCacheManager(): the constructor run on the directory as it will be
Construct(m) ==
    /\ up' = [up EXCEPT ![m] = IndexLoadable(index_file')]
    /\ index' = [index EXCEPT ![m] = LoadIndex(index_file')]

\* the process dies inside cache_prs(repo, prs, metadata) at `point`; the next
\* process constructs its manager on what is left
KilledInCachePrs(m, repo, prs, point) ==
    /\ Free(m)
    /\ LET c == CachePrsUpTo(View(m), repo, prs, now, point)
       IN  /\ index_file' = c.index_file
           /\ files' = c.files
    /\ Construct(m)
    /\ last' = Call("cache_prs_killed", point)
    /\ run' = IdleRun
    /\ UNCHANGED << now, done >>
    /\ UNCHANGED engine

\* the process dies inside invalidate_cache(repo) at `point`
KilledInInvalidateCache(m, repo, point) ==
    /\ Free(m)
    /\ repo \in DOMAIN index[m]
    /\ LET c == InvalidateCacheUpTo(View(m), repo, point)
       IN  /\ index_file' = c.index_file
           /\ files' = c.files
    /\ Construct(m)
    /\ last' = Call("invalidate_cache_killed", point)
    /\ run' = IdleRun
    /\ UNCHANGED << now, done >>
    /\ UNCHANGED engine

\* what the record of a batch call keeps of one pass of its loop: the
\* repository, what the cache held for it before the pass (pre: the branch
\* get_cached_prs would take, pre_prs: the list it would return, pre_fresh:
\* is_cached), what the scrape did if called, and what the body did
LogEntry(c, repo, max_age, outcome, t, body) ==
    [repo |-> repo,
     pre |-> GetCachedPrs(c, repo).tag,
     pre_prs |-> GetCachedPrs(c, repo).prs,
     pre_fresh |-> IsCached(c, repo, max_age, t),
     outcome |-> IF body.fetches = 0 THEN Raises ELSE outcome,
     branch |-> body.branch, contrib |-> body.contrib,
     fetches |-> body.fetches, puts |-> body.puts,
     fallbacks |-> body.fallbacks]

\* get_or_scrape_repos(repos, scraper_func, cache_manager, force_refresh,
\* max_cache_age_days) is called: all_prs = []
StartGetOrScrape(m, repos, force_refresh, max_age) ==
    /\ up[m]
    /\ run.status = "idle"
    /\ run' = [status |-> IF repos = <<>> THEN "returned" ELSE "running",
               kind |-> "get_or_scrape_repos", use_cache |-> TRUE,
               repos |-> repos, i |-> 1, force_refresh |-> force_refresh,
               max_age |-> max_age, all_prs |-> <<>>, log |-> <<>>]
    /\ last' = NoCall
    /\ UNCHANGED << now, index, up, index_file, files, done >>
    /\ UNCHANGED engine

\* scrape_repositories(repos, output_file, use_cache, force_refresh,
\* max_cache_age_days) is called: it constructs its own PRCacheManager, and
\* the constructor's exception is the call's
StartScrapeRepositories(m, repos, use_cache, force_refresh, max_age) ==
    /\ run.status = "idle"
    /\ use_cache \/ up[m]
    /\ IF use_cache
       THEN /\ up' = [up EXCEPT ![m] = IndexLoadable(index_file)]
            /\ index' = [index EXCEPT ![m] = LoadIndex(index_file)]
       ELSE UNCHANGED << up, index >>
    /\ run' = [status |-> IF use_cache /\ ~IndexLoadable(index_file)
                          THEN "raised"
                          ELSE IF repos = <<>> THEN "returned" ELSE "running",
               kind |-> "scrape_repositories", use_cache |-> use_cache,
               repos |-> repos, i |-> 1, force_refresh |-> force_refresh,
               max_age |-> max_age, all_prs |-> <<>>, log |-> <<>>]
    /\ last' = NoCall
    /\ UNCHANGED << now, index_file, files, done >>
    /\ UNCHANGED engine

\* one pass of the loop of the running batch call; the call returns all_prs
\* after the last one
LoopPass(m) ==
    /\ run.status = "running"
    /\ LET repo == run.repos[run.i]
       IN  \E outcome \in Outcomes(repo) :
             LET body ==
                   IF run.kind = "get_or_scrape_repos"
                   THEN GetOrScrapeBody(View(m), repo, run.force_refresh,
                                        run.max_age, outcome, now)
                   ELSE ScrapeRepositoriesBody(View(m), repo, run.use_cache,
                                               run.force_refresh, run.max_age,
                                               outcome, now)
                 j == NextRepo(run.i, body)
             IN  /\ Commit(m, body.c)
                 /\ run' = [run EXCEPT
                       !.i = j,
                       !.all_prs = run.all_prs \o body.contrib,
                       !.log = Append(run.log,
                                  LogEntry(View(m), repo, run.max_age, outcome,
                                           now, body)),
                       !.status = IF body.raised THEN "raised"
                                  ELSE IF j > Len(run.repos) THEN "returned"
                                  ELSE "running"]
    /\ UNCHANGED << now, up, last, done >>
    /\ UNCHANGED engine

\* the caller takes what the batch call returned (or its exception)
Collect ==
    /\ run.status \in {"returned", "raised"}
    /\ run' = IdleRun
    /\ UNCHANGED << now, index, up, index_file, files, last, done >>
    /\ UNCHANGED engine

\* the calls of one process on its manager
Calls(m) ==
    \/ \E repo \in Repos, n \in 0..MaxAgeDays : DoIsCached(m, repo, n)
    \/ \E repo \in Repos : DoGetCachedPrs(m, repo)
    \/ \E repo \in Repos : \E prs \in FetchLists(repo) :
           DoCachePrs(m, repo, prs)
    \/ \E repo \in Repos : DoInvalidateCache(m, repo)

\* a process calling get_or_scrape_repos
GetOrScrape(m) ==
    \/ \E repos \in RepoLists, force_refresh \in BOOLEAN, n \in 0..MaxAgeDays :
           StartGetOrScrape(m, repos, force_refresh, n)
    \/ LoopPass(m)
    \/ Collect

\* the batch calls of one process
Batch(m) ==
    \/ GetOrScrape(m)
    \/ \E repos \in RepoLists, use_cache \in BOOLEAN, force_refresh \in BOOLEAN,
          n \in 0..MaxAgeDays :
           StartScrapeRepositories(m, repos, use_cache, force_refresh, n)

\* the process is killed inside a call that writes
Kills(m) ==
    \/ \E repo \in Repos,
          point \in {"payload_open", "payload_written", "index_open"} :
           \E prs \in FetchLists(repo) :
               KilledInCachePrs(m, repo, prs, point)
    \/ \E repo \in Repos, point \in {"unlinked", "index_open"} :
           KilledInInvalidateCache(m, repo, point)

\* one process, which runs every call to completion, and the clock
Next == Tick \/ Calls(1) \/ Batch(1)

Spec == Init /\ [][Next]_vars

\* processes that may be killed, each constructing its manager on what the
\* one before left in the cache directory
NextCrash == Calls(1) \/ Kills(1) \/ GetOrScrape(1)

SpecCrash == Init /\ [][NextCrash]_vars

\* a second manager is constructed on the directory the first one filled
ConstructSecond ==
    /\ ~up[2]
    /\ run.status = "idle"
    /\ up' = [up EXCEPT ![2] = IndexLoadable(index_file)]
    /\ index' = [index EXCEPT ![2] = LoadIndex(index_file)]
    /\ UNCHANGED << now, index_file, files, last, done, run >>
    /\ UNCHANGED engine

\* manager m's one call of cache_prs as one of two concurrent callers
ConcCachePrs(m, repo, prs) ==
    /\ up[1] /\ up[2]
    /\ done[m] = NotDone
    /\ Commit(m, CachePrs(View(m), repo, prs, now))
    /\ done' = [done EXCEPT ![m] = [op |-> "cache_prs", repo |-> repo]]
    /\ UNCHANGED << now, up, last, run >>
    /\ UNCHANGED engine

\* manager m's one call of invalidate_cache as one of two concurrent callers
ConcInvalidateCache(m, repo) ==
    /\ up[1] /\ up[2]
    /\ done[m] = NotDone
    /\ Commit(m, InvalidateCache(View(m), repo))
    /\ done' = [done EXCEPT ![m] = [op |-> "invalidate_cache", repo |-> repo]]
    /\ UNCHANGED << now, up, last, run >>
    /\ UNCHANGED engine

\* two callers sharing the cache directory, each with its own manager, each
\* making one call once both managers exist
NextConc ==
    \/ ~up[2] /\ Calls(1)
    \/ ConstructSecond
    \/ \E m \in Managers, repo \in Repos : \E prs \in FetchLists(repo) :
           ConcCachePrs(m, repo, prs)
    \/ \E m \in Managers, repo \in Repos : ConcInvalidateCache(m, repo)

SpecConc == Init /\ [][NextConc]_vars

\* batch calls only, at one instant, the cache being filled by the calls
\* themselves (an entry is stale for max_cache_age_days = 0); the running
\* call gets to make its next pass
NextLive == Batch(1)

SpecLive == Init /\ [][NextLive]_vars /\ WF_vars(LoopPass(1))

(***************************************************************************)
(* Calls of find_experts.                                                  *)
(***************************************************************************)
\* a search returns at most MaxCandidates PRs of its own choosing
MaxCandidates == 2

\* top_n ranges over 0..MaxTopN
MaxTopN == 2

\* isoformat() of midnight of day d
DayString(d) == IsoFormat(d * TicksPerDay)

\* one PR as db.search returns it: the payload and its similarity_score
Candidate(author, lines_changed, similarity_score, merged_date, tech_keywords) ==
    [author |-> author, lines_changed |-> lines_changed,
     similarity_score |-> similarity_score, merged_date |-> merged_date,
     tech_keywords |-> tech_keywords,
     complexity_score |-> Lit(5, 10), impact_score |-> Lit(5, 10),
     has_tests |-> FALSE, has_docs |-> FALSE, review_comments_count |-> 0]

\* merge dates: none, one that does not parse, one whose age reaches
\* HalfLifeDays on day 1, one in the near future, and one so far in the future
\* that math.exp overflows
MergedDates ==
    { NoDate, Unparseable, DayString(1 - HalfLifeDays),
      DayString(MaxTime + 1), DayString((MaxExponent + 2) * HalfLifeDays) }

\* the PRs a search may return: for each of two authors a small PR and a
\* large one that matches the query less well, a large PR without author,
\* and small PRs of alice with each kind of merge date, without keywords or
\* (those with a date) naming one keyword six times
Candidates ==
    { Candidate(a, 50, One, DayString(0), << "py" >>) : a \in {"alice", "bob"} }
    \cup { Candidate(a, 500, Lit(8, 10), DayString(0), << "py" >>) :
               a \in {"alice", "bob", ""} }
    \cup { Candidate("alice", 50, Lit(8, 10), d,
                     IF Parses(d) THEN [i \in 1..6 |-> "py"] ELSE <<>>) :
               d \in MergedDates }

\* a result list long enough for the top-up rule to cut it: `results` and
\* TopUpTotal - 1 small PRs without author
Padded(results) ==
    results \o [i \in 1..(TopUpTotal - 1) |->
                   Candidate("", 60, One, DayString(0), <<>>)]

\* a result list with TopUpTotal substantial PRs: `results` and as many large
\* PRs of bob
PaddedSubstantial(results) ==
    results \o [i \in 1..TopUpTotal |->
                   Candidate("bob", 500, Lit(8, 10), DayString(0), << "py" >>)]

\* two PRs of alice, a small one before a large one, with the same combined
\* score: both of similarity_score 0.0, or of scores 1.0 and 0.98
TiedLists ==
    { << Candidate("alice", 50, s[1], DayString(0), << "py" >>),
         Candidate("alice", 500, s[2], DayString(0), << "py" >>) >> :
          s \in { << 0, 0 >>, << One, Lit(98, 100) >> } }

\* a small and a large PR of alice, a large one of bob and a large one
\* without author
MixedList ==
    << Candidate("alice", 50, One, DayString(0), << "py" >>),
       Candidate("bob", 500, Lit(8, 10), DayString(0), << "py" >>),
       Candidate("alice", 500, Lit(8, 10), DayString(0), << "py" >>),
       Candidate("", 500, Lit(8, 10), DayString(0), << "py" >>) >>

\* the lists db.search may return: up to MaxCandidates PRs, two long lists
\* that hold a large PR, a small PR of alice and the padding, a long list of
\* small PRs only, a long list of large PRs after a small one, that list with
\* bob's small PR and one large PR less, the lists with two PRs of equal
\* combined score, and the list of two authors' PRs
ResultLists ==
    UNION { [1..k -> Candidates] : k \in 0..MaxCandidates }
    \cup { Padded(<< Candidate(a, 500, Lit(8, 10), DayString(0), << "py" >>),
                     Candidate("alice", 50, One, DayString(0), << "py" >>) >>) :
               a \in {"", "bob"} }
    \cup { Padded(<< Candidate("alice", 50, One, DayString(0), << "py" >>),
                     Candidate("bob", 50, One, DayString(0), << "py" >>) >>),
           PaddedSubstantial(
               << Candidate("alice", 50, One, DayString(0), << "py" >>) >>),
           Take(PaddedSubstantial(
                    << Candidate("bob", 50, One, DayString(0), << "py" >>) >>),
                TopUpTotal) }
    \cup TiedLists
    \cup { MixedList }

\* recency_weight: the default, 0.1
RecencyWeights == {Lit(1, 10)}

\* find_experts(query, top_n, recency_weight=recency_weight) is called and
\* returns, or db.search raises and the exception is the call's
CallFindExperts(provider_ok, search, top_n, recency_weight) ==
    /\ finder.status = "idle"
    /\ LET r == FindExperts(search, top_n, recency_weight, now)
       IN  finder' = [NoFinder EXCEPT
               !.status = IF r.raised THEN "raised" ELSE "returned",
               !.query_vector = GenerateEmbedding(provider_ok),
               !.search = search, !.top_n = top_n,
               !.recency_weight = recency_weight,
               !.at = now, !.experts = r.experts]
    /\ UNCHANGED << now, directory, blend, pipeline, indexing, scored, store, runs >>

\* `later` ticks after it returned, the same call is made again on the same
\* index: the search returns the same candidates
RepeatFindExperts(later) ==
    /\ finder.status = "returned"
    /\ ~finder.again
    /\ now + later <= MaxTime
    /\ now' = now + later
    /\ LET r == FindExperts(finder.search, finder.top_n,
                            finder.recency_weight, now')
       IN  finder' = [finder EXCEPT !.again = TRUE, !.again_at = now',
                                    !.again_experts = r.experts]
    /\ UNCHANGED << directory, blend, pipeline, indexing, scored, store, runs >>

\* a query against a reachable index, the embedding provider working
Query ==
    /\ finder.status = "idle"
    /\ \E results \in ResultLists, top_n \in 0..MaxTopN, w \in RecencyWeights :
           CallFindExperts(TRUE, SearchReturns(results), top_n, w)

\* a query while the embedding provider fails: the index is searched with the
\* zero vector and returns what it returns
QueryDegraded ==
    /\ finder.status = "idle"
    /\ \E results \in ResultLists :
           CallFindExperts(FALSE, SearchReturns(results), 1, Lit(1, 10))

\* a query against an index that cannot be reached
QueryUnreachable ==
    /\ finder.status = "idle"
    /\ \E provider_ok \in BOOLEAN :
           CallFindExperts(provider_ok, SearchRaises, 1, Lit(1, 10))

\* one query, and the same query once more at the same or a later time
NextRank ==
    \/ Query
    \/ QueryDegraded
    \/ QueryUnreachable
    \/ \E later \in 0..MaxTime : RepeatFindExperts(later)

SpecRank == Init /\ [][NextRank]_vars

(***************************************************************************)
(* The final-score expression on its own.                                  *)
(***************************************************************************)
\* merge dates of the best PR: none, and ages of 0, 1 and 2 half-lives
BlendDates ==
    { NoDate, DayString(0), DayString(0 - HalfLifeDays),
      DayString(0 - 2 * HalfLifeDays) }

\* lines 203-207 of _rank_experts for an author whose similarity_score is
\* given and whose best PR was merged at merged_date
ApplyFinalScore(similarity_score, merged_date, recency_weight) ==
    /\ ~blend.done
    /\ LET recency_score == CalculateRecencyScore(merged_date, now)
       IN  blend' = [done |-> TRUE, similarity_score |-> similarity_score,
                     merged_date |-> merged_date,
                     recency_weight |-> recency_weight,
                     recency_score |-> recency_score,
                     score |-> FinalScore(similarity_score, recency_score,
                                          recency_weight)]
    /\ UNCHANGED << now, directory, finder, pipeline, indexing, scored, store, runs >>

\* the next author
ResetBlend ==
    /\ blend.done
    /\ blend' = NoBlend
    /\ UNCHANGED << now, directory, finder, pipeline, indexing, scored, store, runs >>

\* the expression evaluated for some similarity_score in 0.0 .. 1.0, merge
\* date and recency_weight in 0.0 .. 1.0
Score ==
    /\ ~blend.done
    /\ \E s \in 0..One, d \in BlendDates, w \in 0..One : ApplyFinalScore(s, d, w)

NextScore == Score \/ ResetBlend

SpecScore == Init /\ [][NextScore]_vars

(***************************************************************************)
(* scrape_repositories with the real scraper.                              *)
(***************************************************************************)
\* one pass of the loop of scrape_repositories(repos, use_cache=True,
\* force_refresh, max_cache_age_days) for `repo`, scraper.scrape_repo_prs
\* meeting `upstream` and `net`
ScrapePass(m, repo, force_refresh, max_age, upstream, net) ==
    /\ up[m]
    /\ LET outcome == ScrapeRepoPrs(upstream, net)
           body == ScrapeRepositoriesBody(View(m), repo, TRUE, force_refresh,
                                          max_age, outcome, now)
       IN  /\ Commit(m, body.c)
           /\ pipeline' = [repo |-> repo,
                           error |-> body.fetches = 1 /\ HitsError(upstream, net),
                           pre |-> GetCachedPrs(View(m), repo).tag,
                           pre_prs |-> GetCachedPrs(View(m), repo).prs,
                           branch |-> body.branch, contrib |-> body.contrib,
                           fetches |-> body.fetches]
    /\ UNCHANGED << now, up, last, done, run, finder, blend, indexing, scored, store, runs >>

\* the pipeline scraping repositories again and again as time passes
NextPipeline ==
    \/ Tick
    \/ \E repo \in Repos, force_refresh \in BOOLEAN, n \in 0..MaxAgeDays,
          net \in Nets :
           ScrapePass(1, repo, force_refresh, n, Upstream(repo), net)

SpecPipeline == Init /\ [][NextPipeline]_vars

(***************************************************************************)
(* One run of the indexing pipeline: embed_prs, upload_prs, search.        *)
(***************************************************************************)
\* embed_prs is given at most MaxBatch PRs
MaxBatch == 3

\* the PR _fetch_pr_details returns as number n of a repository: one whose
\* title holds nothing clean_text keeps and that names no technology, one
\* with a title and the metrics combined_score assumes when it finds none,
\* or one with keywords, tests, docs, reviews and high scores
ScrapedPr(n, kind) ==
    [pr_id |-> n, author |-> "alice", description |-> <<>>,
     merged_date |-> DayString(0),
     title |-> CASE kind = "blank" -> << "#" >>
                 [] kind = "plain" -> << "F", "i", "x" >>
                 [] kind = "rich" -> << " ", "F", "i", "x", " ", "\n", "#", "1" >>,
     tech_keywords |-> IF kind = "rich" THEN << "py" >> ELSE <<>>,
     lines_changed |-> IF kind = "rich" THEN 500 ELSE 50,
     review_comments_count |-> IF kind = "rich" THEN 6 ELSE 0,
     has_tests |-> kind = "rich",
     has_docs |-> kind = "rich",
     complexity_score |-> IF kind = "rich" THEN Lit(9, 10) ELSE Lit(5, 10),
     impact_score |-> IF kind = "rich" THEN One ELSE Lit(5, 10)]

Kinds == {"blank", "plain", "rich"}

\* the lists handed to embed_prs
PrLists ==
    UNION { { [n \in 1..k |-> ScrapedPr(n, kinds[n])] : kinds \in [1..k -> Kinds] } :
            k \in 0..MaxBatch }

\* what self.cache holds when embed_prs is called: nothing, or the text of
\* the plain PR
Caches == { {}, { TextOf(ScrapedPr(1, "plain")) } }

\* embed_prs(prs) is called
DoEmbedPrs(prs, cache, provider_ok) ==
    /\ indexing.stage = "idle"
    /\ LET r == EmbedPrs(prs, cache, provider_ok)
       IN  indexing' = [NoIndexing EXCEPT
               !.stage = IF r.raised THEN "raised" ELSE "embedded",
               !.prs = prs, !.cache = cache, !.provider_ok = provider_ok,
               !.raised = r.raised, !.embedded_prs = r.embedded_prs]
    /\ UNCHANGED << now, directory, finder, blend, pipeline, scored, store, runs >>

\* upload_prs(embedded_prs) is called on a new collection
DoUploadPrs ==
    /\ indexing.stage = "embedded"
    /\ indexing' = [indexing EXCEPT
           !.stage = "uploaded",
           !.points = UploadPrs(NoPoints, indexing.embedded_prs)]
    /\ UNCHANGED << now, directory, finder, blend, pipeline, scored, store, runs >>

\* the vectors of the queries: that of the plain PR's text, that of another
\* text, and the zero vector
QueryVectors ==
    { EmbeddingOf(TextOf(ScrapedPr(1, "plain"))), EmbeddingOf(<< "?" >>), Zeros }

\* search(query_vector, limit) is called
DoSearch(query_vector, limit) ==
    /\ indexing.stage = "uploaded"
    /\ indexing' = [indexing EXCEPT
           !.stage = "searched",
           !.query_vector = query_vector,
           !.results = Search(indexing.points, query_vector, limit)]
    /\ UNCHANGED << now, directory, finder, blend, pipeline, scored, store, runs >>

Embed ==
    /\ indexing.stage = "idle"
    /\ \E prs \in PrLists, cache \in Caches, provider_ok \in BOOLEAN :
           DoEmbedPrs(prs, cache, provider_ok)

NextIndex ==
    \/ Embed
    \/ DoUploadPrs
    \/ \E query_vector \in QueryVectors, limit \in 1..MaxBatch :
           DoSearch(query_vector, limit)

SpecIndex == Init /\ [][NextIndex]_vars

(***************************************************************************)
(* combined_score on its own.                                              *)
(***************************************************************************)
\* lines_changed around the substantiality threshold and the 5000 lines at
\* which lines_normalized is capped
BoostLines ==
    { 0, MIN_SUBSTANTIAL_PR_LINES - 1, MIN_SUBSTANTIAL_PR_LINES, 4999, 5000, 10000 }

\* scores in 0.0 .. 1.0: both ends, the middle and a step from each end
UnitScores == { 0, 1, Lit(1, 2), One - 1, One }

\* the candidates combined_score is given
BoostCandidates ==
    [similarity_score : UnitScores, lines_changed : BoostLines,
     complexity_score : UnitScores, impact_score : UnitScores,
     has_tests : BOOLEAN, has_docs : BOOLEAN, review_comments_count : {5, 6}]

\* combined_score(pr) is evaluated
ApplyCombinedScore(pr) ==
    /\ ~scored.done
    /\ scored' = [done |-> TRUE, pr |-> pr, size_boost |-> SizeBoost(pr),
                  multiplier |-> Multiplier(pr), combined |-> CombinedScore(pr)]
    /\ UNCHANGED << now, directory, finder, blend, pipeline, indexing, store, runs >>

\* the next candidate
ResetScored ==
    /\ scored.done
    /\ scored' = NotScored
    /\ UNCHANGED << now, directory, finder, blend, pipeline, indexing, store, runs >>

Boost ==
    /\ ~scored.done
    /\ \E pr \in BoostCandidates : ApplyCombinedScore(pr)

NextBoost == Boost \/ ResetScored

SpecBoost == Init /\ [][NextBoost]_vars

(***************************************************************************)
(* One manager on a directory of its own, called with repository names     *)
(* that share a payload path.  Every call runs to completion.              *)
(***************************************************************************)
\* cache_prs(repo, prs)
SharedCachePrs(repo, prs) ==
    /\ store' = CachePrs(store, repo, prs, now)
    /\ UNCHANGED << now, directory, finder, blend, pipeline, indexing, scored, runs >>

\* get_cached_prs(repo)
SharedGetCachedPrs(repo) ==
    /\ store' = GetCachedPrs(store, repo).c
    /\ UNCHANGED << now, directory, finder, blend, pipeline, indexing, scored, runs >>

\* invalidate_cache(repo)
SharedInvalidateCache(repo) ==
    /\ store' = InvalidateCache(store, repo)
    /\ UNCHANGED << now, directory, finder, blend, pipeline, indexing, scored, runs >>

NextStore ==
    \/ Tick
    \/ \E repo \in SharingRepos :
         \E prs \in FetchLists(repo) : SharedCachePrs(repo, prs)
    \/ \E repo \in SharingRepos : SharedGetCachedPrs(repo)
    \/ \E repo \in SharingRepos : SharedInvalidateCache(repo)

SpecStore == Init /\ [][NextStore]_vars

(***************************************************************************)
(* Two calls of get_or_scrape_repos in a row on one manager, each run to   *)
(* completion, and the clock.  `outcomes` is what the scrape of each       *)
(* repository does in the call.                                            *)
(***************************************************************************)
RECURSIVE GetOrScrapeRepos(_, _, _, _, _, _)
\* get_or_scrape_repos(repos, scraper_func, cache_manager, force_refresh,
\* max_cache_age_days): the cache afterwards, all_prs, and what each pass did
GetOrScrapeRepos(c, repos, force_refresh, max_cache_age_days, outcomes, t) ==
    IF repos = <<>>
    THEN [c |-> c, all_prs |-> <<>>, passes |-> <<>>]
    ELSE LET repo == Head(repos)
             body == GetOrScrapeBody(c, repo, force_refresh,
                                     max_cache_age_days, outcomes[repo], t)
             rest == GetOrScrapeRepos(body.c, Tail(repos), force_refresh,
                                      max_cache_age_days, outcomes, t)
         IN  [c |-> rest.c,
              all_prs |-> body.contrib \o rest.all_prs,
              passes |-> << [repo |-> repo, branch |-> body.branch,
                             fetches |-> body.fetches,
                             contrib |-> body.contrib] >> \o rest.passes]

\* what the scrapes of one call may do: one outcome for each repository of
\* the list
OutcomesOfCall(repos) ==
    LET asked == { repos[i] : i \in DOMAIN repos }
    IN  { f \in [asked -> UNION { Outcomes(r) : r \in Repos }] :
            \A r \in asked : f[r] \in Outcomes(r) }

\* a call of get_or_scrape_repos, the first or the second of the two
CallGetOrScrapeRepos(repos, force_refresh, max_age, outcomes) ==
    /\ Len(runs) < 2
    /\ LET call == GetOrScrapeRepos(View(1), repos, force_refresh, max_age,
                                    outcomes, now)
       IN  /\ Commit(1, call.c)
           /\ runs' = Append(runs, [at |-> now, passes |-> call.passes])
    /\ UNCHANGED << now, up, last, done, run >>
    /\ UNCHANGED << finder, blend, pipeline, indexing, scored, store >>

\* the two calls are over; the next call is the first of two again
NextPairOfRuns ==
    /\ Len(runs) = 2
    /\ runs' = <<>>
    /\ UNCHANGED << now, directory, finder, blend, pipeline, indexing, scored, store >>

\* the first call, with any arguments
FirstRun ==
    /\ runs = <<>>
    /\ \E repos \in RepoLists, force_refresh \in BOOLEAN, n \in 0..MaxAgeDays :
         \E outcomes \in OutcomesOfCall(repos) :
            CallGetOrScrapeRepos(repos, force_refresh, n, outcomes)

\* the call after it, with force_refresh false and max_cache_age_days >= 1
LaterRun ==
    /\ Len(runs) = 1
    /\ \E repos \in RepoLists, n \in 1..MaxAgeDays :
         \E outcomes \in OutcomesOfCall(repos) :
            CallGetOrScrapeRepos(repos, FALSE, n, outcomes)

NextRuns == Tick \/ FirstRun \/ LaterRun \/ NextPairOfRuns

SpecRuns == Init /\ [][NextRuns]_vars

(***************************************************************************)
(* Properties.                                                             *)
(***************************************************************************)
\* the in-memory view of the one manager of Spec and SpecCrash
Cache == View(1)

\* the instant an index entry was cached, read off its 'cached_at' field
CachedTick(entry) == entry.cached_at[1] * TicksPerDay + entry.cached_at[2]

\* the passes the last batch call has made
Passes == 1..Len(run.log)

RECURSIVE Contribs(_)
\* what the passes of a log appended to all_prs, in order
Contribs(log) ==
    IF log = <<>> THEN <<>> ELSE log[1].contrib \o Contribs(Tail(log))

\* the scrape was called in pass e and raised
FetchFailed(e) == e.fetches = 1 /\ ~e.outcome.ok

\* the scrape was called in pass e and returned
FetchReturned(e) == e.fetches = 1 /\ e.outcome.ok

\* before pass e the cache held a readable record set for the repository
HadRecords(e) == e.pre = "ok"

\* C1: when the scrape of a repository raises during a batch call that uses
\* the cache (get_or_scrape_repos, or scrape_repositories with use_cache) and
\* the cache holds an entry with a readable payload for that repository, the
\* pass contributes exactly the cached records, the call does not raise, and
\* the records are in the list the call returns.
C1_FallbackOnFailure ==
    /\ \A k \in Passes :
         (run.use_cache /\ FetchFailed(run.log[k]) /\ HadRecords(run.log[k]))
            => run.log[k].contrib = run.log[k].pre_prs
    /\ run.log # <<>> => run.status # "raised"
    /\ run.status = "returned" => run.all_prs = Contribs(run.log)

\* a batch call has returned stale records of a repository whose scrape raised
C1_Witness ==
    /\ run.status = "returned"
    /\ \E k \in Passes :
         /\ FetchFailed(run.log[k]) /\ HadRecords(run.log[k])
         /\ ~run.log[k].pre_fresh
         /\ run.log[k].pre_prs # <<>>
         /\ run.log[k].contrib = run.log[k].pre_prs
         /\ run.log[k].branch = "fallback"

\* every cache entry other than repo's is the same in c and d: in the index in
\* memory, in the index file and in the payload files
OthersSame(c, d, repo) ==
    \A o \in Repos \ {repo} :
       /\ (o \in DOMAIN c.index) = (o \in DOMAIN d.index)
       /\ o \in DOMAIN c.index => c.index[o] = d.index[o]
       /\ (o \in DOMAIN c.index_file.doc) = (o \in DOMAIN d.index_file.doc)
       /\ o \in DOMAIN c.index_file.doc
             => c.index_file.doc[o] = d.index_file.doc[o]
       /\ c.files[GetRepoCachePath(o)] = d.files[GetRepoCachePath(o)]

\* the step is a pass of get_or_scrape_repos in which the scrape raised and
\* get_cached_prs had nothing to return for the repository
SkippingPass ==
    /\ run.status = "running"
    /\ run.kind = "get_or_scrape_repos"
    /\ Len(run'.log) = Len(run.log) + 1
    /\ FetchFailed(run'.log[Len(run'.log)])
    /\ ~(HadRecords(run'.log[Len(run'.log)])
         /\ run'.log[Len(run'.log)].pre_prs # <<>>)

\* the passes of the batch call so far are for the requested repositories,
\* one each, in request order
InRequestOrder ==
    /\ Len(run.log) <= Len(run.repos)
    /\ \A k \in Passes : run.log[k].repo = run.repos[k]
    /\ run.status = "running" => run.i = Len(run.log) + 1
    /\ run.status = "returned" => Len(run.log) = Len(run.repos)

\* C2: in get_or_scrape_repos, a pass whose scrape raises with nothing cached
\* for the repository adds no record, raises nothing, leaves the cache of
\* every other repository as it was and moves on to the next repository; the
\* passes are made in request order, one per repository, and the call returns
\* the passes' records in that order.
C2_FailureIsolation ==
    /\ [][SkippingPass =>
            /\ run'.all_prs = run.all_prs
            /\ run'.log[Len(run'.log)].contrib = <<>>
            /\ run'.status # "raised"
            /\ run'.i = run.i + 1
            /\ OthersSame(View(1), View(1)', run.repos[run.i])]_vars
    /\ [](run.kind = "get_or_scrape_repos" =>
            /\ InRequestOrder
            /\ run.status # "raised"
            /\ run.all_prs = Contribs(run.log))

\* get_or_scrape_repos has returned the records of a repository processed
\* after one it skipped
C2_Witness ==
    /\ run.kind = "get_or_scrape_repos"
    /\ run.status = "returned"
    /\ Len(run.log) = 2
    /\ FetchFailed(run.log[1])
    /\ run.log[1].pre \in {"healed", "corrupt"}
    /\ run.log[1].contrib = <<>>
    /\ run.log[2].contrib # <<>>

\* the index file points at no payload that is missing or half-written
IndexPointsAtPayloads(c) ==
    \A repo \in DOMAIN c.index_file.doc :
        c.files[GetRepoCachePath(repo)].st = "full"

\* C3: a process killed at any point inside cache_prs(repo, prs), also when
\* repo is already in the index, leaves an index file that points at no
\* missing or half-written payload, if the index file pointed at none before.
C3_CrashConsistentPut ==
    up[1] /\ IndexPointsAtPayloads(Cache) =>
        \A repo \in Repos,
           point \in {"payload_open", "payload_written", "index_open"} :
            \A prs \in FetchLists(repo) :
                IndexPointsAtPayloads(CachePrsUpTo(Cache, repo, prs, now, point))

\* C4: when two callers, each with its own manager, have each completed one
\* cache_prs or invalidate_cache call, for different repositories, the index
\* file has the entry of each repository put and none of each repository
\* invalidated.
C4_IndependentRepos ==
    (/\ done[1] # NotDone
     /\ done[2] # NotDone
     /\ done[1].repo # done[2].repo)
    => \A m \in Managers :
          /\ done[m].op = "cache_prs" => done[m].repo \in DOMAIN index_file.doc
          /\ done[m].op = "invalidate_cache"
                => done[m].repo \notin DOMAIN index_file.doc

\* the record set a pass that called the scraper successfully put is the
\* one the cache now holds for the repository
PutIsCached(e) ==
    /\ e.puts = 1
    /\ e.contrib = e.outcome.prs
    /\ GetCachedPrs(Cache, e.repo).ret = "list"
    /\ GetCachedPrs(Cache, e.repo).prs = e.outcome.prs

C6_PutThenGet ==
    up[1] =>
      \A repo \in Repos : \A prs \in FetchLists(repo) \ {<<>>} :
        LET g == GetCachedPrs(CachePrs(Cache, repo, prs, now), repo)
        IN  g.ret = "list" /\ g.prs = prs

\* cache_prs has overwritten the entry of a repository that had records, and
\* the cache now holds a record set for some repository
C6_Witness ==
    /\ last = Call("cache_prs", "overwrite")
    /\ \E repo \in Repos :
         GetCachedPrs(Cache, repo).ret = "list"
         /\ GetCachedPrs(Cache, repo).prs # <<>>

C8_SelfHealingGet ==
    up[1] =>
      \A repo \in DOMAIN index[1] :
        files[GetRepoCachePath(repo)].st = "none" =>
          LET g == GetCachedPrs(Cache, repo)
          IN  /\ g.ret = "None"
              /\ repo \notin DOMAIN g.c.index
              /\ g.c.index_file.st = "full"
              /\ repo \notin DOMAIN g.c.index_file.doc
              /\ OthersSame(Cache, g.c, repo)

\* get_cached_prs has pruned an index entry whose payload was missing
C8_Witness ==
    /\ last = Call("get_cached_prs", "healed")
    /\ index_file.st = "full"
    /\ index_file.doc = index[1]

\* invalidate_cache(repo) applied to c leaves repo in neither index
Unindexed(c, repo) ==
    repo \notin DOMAIN c.index /\ repo \notin DOMAIN c.index_file.doc

\* the original statement of C9: from any state invalidate_cache(repo) leaves
\* neither a payload nor an index entry for repo, changes nothing when repo
\* is absent, and twice is the same as once.
C9_InvalidateRemovesPayload ==
    up[1] =>
      \A repo \in Repos :
        LET c == InvalidateCache(Cache, repo)
        IN  /\ c.files[GetRepoCachePath(repo)].st = "none"
            /\ Unindexed(c, repo)
            /\ repo \notin DOMAIN index[1] => c = Cache
            /\ InvalidateCache(c, repo) = c

\* C9 (amended): invalidate_cache(repo) removes the index entry and the
\* payload of a repo that is in the index, leaving every other entry as it
\* was; when repo is not in the index it changes nothing, so a payload file
\* the index does not name stays; and twice is the same as once.
C9_Invalidate ==
    up[1] =>
      \A repo \in Repos :
        LET c == InvalidateCache(Cache, repo)
        IN  /\ Unindexed(c, repo)
            /\ repo \in DOMAIN index[1]
                 => /\ c.files[GetRepoCachePath(repo)].st = "none"
                    /\ OthersSame(Cache, c, repo)
            /\ repo \notin DOMAIN index[1] => c = Cache
            /\ InvalidateCache(c, repo) = c

\* invalidate_cache has been called on a repository that is not in the index
\* while a payload file of a repository outside the index exists
C9_Witness ==
    /\ last = Call("invalidate_cache", "noop")
    /\ \E repo \in Repos :
         repo \notin DOMAIN index[1]
         /\ files[GetRepoCachePath(repo)].st # "none"

\* a pass calls the scraper at most once and reads the cache in the except
\* branch at most once, and only after the scraper raised
BoundedAttempts(e) ==
    /\ e.fetches <= 1
    /\ e.fallbacks <= 1
    /\ e.fallbacks = 1 => FetchFailed(e)

\* C10: a batch call makes one pass per requested repository, each with at
\* most one scrape and at most one fallback read, and then returns.
C10_BoundedAttempts ==
    /\ [](InRequestOrder /\ \A k \in Passes : BoundedAttempts(run.log[k]))
    /\ (run.status = "running") ~> (run.status = "returned")

\* a batch call has returned after a pass that scraped, failed and fell back
C10_Witness ==
    /\ run.status = "returned"
    /\ Len(run.log) = Cardinality(Repos)
    /\ \E k \in Passes : run.log[k].fallbacks = 1 /\ run.log[k].fetches = 1

(***************************************************************************)
(* Properties of the ranking engine.                                       *)
(***************************************************************************)
\* find_experts has returned a list
Returned == finder.status = "returned"

\* find_experts has returned a list and has not been called again: the
\* second call leaves the record of the first as it is
Answered == Returned /\ ~finder.again

\* the list db.search returned to the call
Results == finder.search.results

\* the list the call gave to _rank_experts
RankedPrs == RankedInput(Results)

\* the experts _rank_experts built in the call, sorted by score
Built == SortedExperts(RankedPrs, finder.recency_weight, finder.at)

\* the list _rank_experts returned in the call
Ranked == RankExperts(RankedPrs, finder.recency_weight, finder.at)

\* the elements of a list
Range(s) == { s[i] : i \in DOMAIN s }

\* enough PRs, or enough lines
Qualifies(e) ==
    \/ e.total_relevant_prs >= MIN_EXPERT_PRS
    \/ e.total_lines_changed >= MIN_EXPERT_TOTAL_LINES

\* list `sub` is list `s` with some elements left out
KeepsOrder(sub, s) ==
    /\ Range(sub) \subseteq Range(s)
    /\ \A i, j \in DOMAIN sub :
         i < j => \E k, l \in DOMAIN s : k < l /\ s[k] = sub[i] /\ s[l] = sub[j]

\* C11: _rank_experts keeps a profile iff it has MIN_EXPERT_PRS PRs or
\* MIN_EXPERT_TOTAL_LINES lines, keeps the kept profiles in ranked order, and
\* returns the whole ranked list when no profile qualifies.
C11_MinExpertFilter ==
    Answered =>
      LET built == Built
          ranked == Ranked
          kept == Range(ranked)
      IN  /\ KeepsOrder(ranked, built)
          /\ IF \E e \in Range(built) : Qualifies(e)
             THEN \A e \in Range(built) : e \in kept <=> Qualifies(e)
             ELSE ranked = built
          /\ finder.experts = Take(ranked, finder.top_n)

\* _rank_experts has kept one profile and dropped another, lower in the
\* ranking the one it kept
C11_Witness ==
    /\ Returned
    /\ Len(Built) = 2
    /\ Len(Ranked) = 1
    /\ Ranked[1] = Built[2]
    /\ finder.experts = Ranked

C13_AuthorsAreCandidates ==
    (finder.status # "idle" /\ finder.search.ok) =>
      /\ Returned
      /\ Results = <<>> => finder.experts = <<>>
      /\ \A e \in Range(finder.experts) :
           \E pr \in Range(Results) : pr.author = e.author

\* a call has returned profiles while one of its candidates had no author
C13_Witness ==
    /\ Returned
    /\ finder.experts # <<>>
    /\ \E pr \in Range(Results) : pr.author = ""
    /\ \A e \in Range(finder.experts) : e.author # ""

\* where _rank_experts first met the author in its input `prs`
FirstMet(prs, author) ==
    CHOOSE i \in DOMAIN prs :
        /\ prs[i].author = author
        /\ \A j \in 1..(i - 1) : prs[j].author # author

\* C14: find_experts returns the first top_n profiles of the ranked list: at
\* most top_n of them, scores not increasing, profiles of equal score in the
\* order in which _rank_experts first met their authors.
C14_TopN ==
    Answered =>
      LET ranked == Ranked
          prs == RankedPrs
      IN  /\ finder.experts = SubSeq(ranked, 1, Len(finder.experts))
          /\ Len(finder.experts) = Min(finder.top_n, Len(ranked))
          /\ \A i, j \in DOMAIN finder.experts :
               i < j =>
                 /\ finder.experts[i].score >= finder.experts[j].score
                 /\ finder.experts[i].score = finder.experts[j].score
                      => FirstMet(prs, finder.experts[i].author)
                           < FirstMet(prs, finder.experts[j].author)

\* a call with top_n = 2 has returned two profiles of equal score
C14_Witness ==
    /\ Returned
    /\ finder.top_n = 2
    /\ Len(finder.experts) = 2
    /\ finder.experts[1].score = finder.experts[2].score

\* the original statement of C15: the score is similarity_score for weight 0,
\* recency_score for weight 1, and between the two scores for every weight.
C15_ConvexScore ==
    blend.done =>
      /\ blend.recency_weight = 0 => blend.score = blend.similarity_score
      /\ blend.recency_weight = One => blend.score = blend.recency_score
      /\ blend.score >= Min(blend.similarity_score, blend.recency_score)
      /\ blend.score <= Max(blend.similarity_score, blend.recency_score)

\* C15: the score is similarity_score for weight 0, recency_score for weight
\* 1, and for every weight within one rounding step of the interval between
\* the two scores.
C15_FinalScore ==
    blend.done =>
      /\ blend.recency_weight = 0 => blend.score = blend.similarity_score
      /\ blend.recency_weight = One => blend.score = blend.recency_score
      /\ blend.score >= Min(blend.similarity_score, blend.recency_score) - 1
      /\ blend.score <= Max(blend.similarity_score, blend.recency_score) + 1

\* a score has been computed strictly between a similarity_score and a
\* recency_score that differ
C15_Witness ==
    /\ blend.done
    /\ blend.recency_weight \notin {0, One}
    /\ blend.recency_score > blend.similarity_score
    /\ blend.score > blend.similarity_score
    /\ blend.score < blend.recency_score

\* C16: every profile _rank_experts builds has recency_score and
\* tech_depth_score in [0, 1], whatever the merge date and the keywords, and
\* recency_score 0 when its best PR has no merge date.
C16_ScoreBounds ==
    Answered =>
      \A e \in Range(Built) :
        /\ 0 <= e.recency_score /\ e.recency_score <= One
        /\ 0 <= e.tech_depth_score /\ e.tech_depth_score <= One
        /\ e.merged_date = NoDate => e.recency_score = 0

\* a profile has been returned whose best PR is merged in the future and
\* names a keyword more than five times: both scores are capped at 1.0
C16_Witness ==
    /\ Returned
    /\ \E e \in Range(finder.experts) :
         /\ Parses(e.merged_date)
         /\ FromIsoFormat(e.merged_date) > finder.at
         /\ ~ExpOverflows(AgeDays(finder.at, FromIsoFormat(e.merged_date)))
         /\ e.recency_score = One
         /\ e.tech_depth_score = One

\* the original statement of C17: the same call made again, at any time,
\* returns the same profiles in the same order with the same scores.
C17_Deterministic ==
    (Returned /\ finder.again) => finder.again_experts = finder.experts

\* the age in whole days of every parseable merge date among the candidates
\* is the same at the two times
SameAges(t1, t2) ==
    \A pr \in Range(Results) :
        Parses(pr.merged_date) =>
            AgeDays(t1, FromIsoFormat(pr.merged_date))
              = AgeDays(t2, FromIsoFormat(pr.merged_date))

\* C17: the same call made again returns the same profiles in the same order
\* with the same scores if every candidate's merge date is as many whole days
\* old as it was at the first call.
C17_DeterministicPerDay ==
    (Returned /\ finder.again /\ SameAges(finder.at, finder.again_at))
      => finder.again_experts = finder.experts

\* a call has been repeated later the same day and has returned a profile
\* whose recency_score is not 0
C17_Witness ==
    /\ Returned
    /\ finder.again
    /\ finder.again_at > finder.at
    /\ SameAges(finder.at, finder.again_at)
    /\ \E e \in Range(finder.again_experts) :
         e.recency_score > 0 /\ e.merged_date = DayString(1 - HalfLifeDays)

\* C18: what find_experts gives its caller when the embedding provider fails
\* or the index cannot be reached differs from what it gives when nothing in
\* the index is relevant, an empty list.
C18_FailureDistinguishable ==
    (finder.status # "idle"
       /\ (finder.query_vector = "zeros" \/ ~finder.search.ok))
      => ~(Returned /\ finder.experts = <<>>)

(***************************************************************************)
(* Properties of the cache, continued.                                     *)
(***************************************************************************)
\* an indexed repository whose payload file exists and cannot be parsed
Corrupt(c, repo) ==
    repo \in DOMAIN c.index /\ c.files[GetRepoCachePath(repo)].st = "partial"

\* the original statement of C19: get_cached_prs(repo) on an indexed repo
\* whose payload cannot be parsed returns None and prunes the index entry, so
\* that is_cached(repo) is false afterwards.
C19_CorruptPayloadPruned ==
    up[1] =>
      \A repo \in Repos :
        Corrupt(Cache, repo) =>
          LET g == GetCachedPrs(Cache, repo)
          IN  /\ g.ret = "None"
              /\ repo \notin DOMAIN g.c.index
              /\ \A n \in 0..MaxAgeDays : ~IsCached(g.c, repo, n, now)

\* C19: get_cached_prs(repo) on an indexed repo whose payload cannot be parsed
\* returns None without raising and changes nothing: the index entry stays,
\* in memory and in the index file, and is_cached(repo) answers as before.
C19_CorruptPayloadKept ==
    up[1] =>
      \A repo \in Repos :
        Corrupt(Cache, repo) =>
          LET g == GetCachedPrs(Cache, repo)
          IN  /\ g.ret = "None"
              /\ g.c = Cache
              /\ \A n \in 0..MaxAgeDays :
                   IsCached(g.c, repo, n, now) = IsCached(Cache, repo, n, now)

\* get_cached_prs has been called on an indexed repository whose payload is
\* half-written, and the repository is still in the index
C19_Witness ==
    /\ last = Call("get_cached_prs", "corrupt")
    /\ \E repo \in Repos : Corrupt(Cache, repo)

\* C20: when a request fails while scrape_repositories scrapes a repository
\* whose records are cached, the pass serves the cached records and leaves
\* the repository's cached records as they were.
C20_StaleFallbackInPipeline ==
    (pipeline.error /\ pipeline.pre = "ok" /\ pipeline.pre_prs # <<>>) =>
      /\ pipeline.contrib = pipeline.pre_prs
      /\ GetCachedPrs(Cache, pipeline.repo).prs = pipeline.pre_prs

(***************************************************************************)
(* Properties of the ranking engine, continued.                            *)
(***************************************************************************)
\* lines_changed >= MIN_SUBSTANTIAL_PR_LINES
Substantial(pr) == pr.lines_changed >= MIN_SUBSTANTIAL_PR_LINES

Other(pr) == ~Substantial(pr)

\* how many times x is in the list s
Count(s, x) == Cardinality({ i \in DOMAIN s : s[i] = x })

\* the two lists hold the same elements as many times each
SameBag(s, r) ==
    /\ Range(s) = Range(r)
    /\ \A x \in Range(s) : Count(s, x) = Count(r, x)

\* list `kept` holds all the substantial PRs of `results`, and `n` of the
\* others, none of them smaller than one it leaves out
KeepsLargest(kept, results, n) ==
    /\ SameBag(SelectSeq(kept, Substantial), SelectSeq(results, Substantial))
    /\ Len(SelectSeq(kept, Other)) = n
    /\ \A x \in Range(kept) : Count(kept, x) <= Count(results, x)
    /\ \A x \in Range(SelectSeq(kept, Other)), y \in Range(results) :
         (Other(y) /\ Count(kept, y) < Count(results, y))
           => x.lines_changed >= y.lines_changed

\* the original statement of C21: with 20 substantial candidates or more only
\* those are ranked; with fewer, zero included, all of them and the
\* min(|other|, max(10, 20 - |substantial|)) largest others.
C21_TopUp ==
    Answered =>
      LET results == Results
          ranked == RankedPrs
          substantial == Len(SelectSeq(results, Substantial))
          other == Len(results) - substantial
      IN  IF substantial >= TopUpTotal
          THEN SameBag(ranked, SelectSeq(results, Substantial))
          ELSE KeepsLargest(ranked, results,
                   Min(other, Max(TopUpFloor, TopUpTotal - substantial)))

\* C21: with 20 substantial candidates or more only those are ranked; with
\* 1 to 19, all of them and the min(|other|, max(10, 20 - |substantial|))
\* largest others; with none, every candidate is ranked.
C21_TopUpUnlessNone ==
    Answered =>
      LET results == Results
          ranked == RankedPrs
          substantial == Len(SelectSeq(results, Substantial))
          other == Len(results) - substantial
      IN  IF substantial >= TopUpTotal
          THEN SameBag(ranked, SelectSeq(results, Substantial))
          ELSE IF substantial = 0
          THEN SameBag(ranked, results)
          ELSE KeepsLargest(ranked, results,
                   Min(other, Max(TopUpFloor, TopUpTotal - substantial)))

\* a call has ranked one substantial candidate and 19 of 20 others, leaving
\* out the smallest
C21_Witness ==
    /\ Returned
    /\ Len(SelectSeq(Results, Substantial)) = 1
    /\ Len(SelectSeq(Results, Other)) = TopUpTotal
    /\ Len(SelectSeq(RankedPrs, Other)) = TopUpTotal - 1
    /\ \E y \in Range(Results) :
           y \notin Range(RankedPrs) /\ y.lines_changed = 50

\* the list is in descending order of similarity_score, as the index returns
\* its hits
BySimilarity(results) ==
    \A i, j \in DOMAIN results :
        i < j => results[i].similarity_score >= results[j].similarity_score

\* the authors of the candidates _rank_experts is given
RankedAuthors == { pr.author : pr \in Range(RankedPrs) } \ {""}

\* the PRs of list `prs` whose combined score is `score`
Scoring(prs, score) == SelectSeq(prs, LAMBDA pr : CombinedScore(pr) = score)

\* the combined scores of the PRs of a list
Scores(prs) == { CombinedScore(pr) : pr \in Range(prs) }

\* list `group` is in descending order of combined score
Descending(group) ==
    \A i, j \in DOMAIN group :
        i < j => CombinedScore(group[i]) >= CombinedScore(group[j])

\* the original statement of C22: each author's group is in descending order
\* of combined score, candidates of equal score in the order the similarity
\* search returned them, top-up path included.
C22_TiesInRetrievalOrder ==
    (Answered /\ BySimilarity(Results)) =>
      LET prs == RankedPrs
      IN  \A author \in RankedAuthors :
            LET group == PrsList(AuthorPrs(prs, author))
                retrieved == AuthorPrs(Results, author)
            IN  /\ Descending(group)
                /\ \A score \in Scores(group) :
                     KeepsOrder(Scoring(group, score), Scoring(retrieved, score))

\* C22: each author's group is in descending order of combined score,
\* candidates of equal score in the order they have in the list
\* _rank_experts is given: substantial candidates in the order the similarity
\* sort gave them, then the topped-up smaller ones by descending lines_changed.
C22_TiesInRankedOrder ==
    Answered =>
      LET prs == RankedPrs
      IN  \A author \in RankedAuthors :
            LET group == PrsList(AuthorPrs(prs, author))
                given == AuthorPrs(prs, author)
            IN  /\ SameBag(group, given)
                /\ Descending(group)
                /\ \A score \in Scores(group) :
                     Scoring(group, score) = Scoring(given, score)

\* a call has ranked two candidates of one author that have the same combined
\* score and different similarity scores, the substantial one first although
\* the search returned it second
C22_Witness ==
    /\ Returned
    /\ BySimilarity(Results)
    /\ Len(Results) = 2
    /\ Results[1].author = "alice" /\ Results[2].author = "alice"
    /\ Results[1].similarity_score > Results[2].similarity_score
    /\ CombinedScore(Results[1]) = CombinedScore(Results[2])
    /\ PrsList(AuthorPrs(RankedPrs, "alice")) = << Results[2], Results[1] >>

\* how many PRs of the list have a combined score above that of `pr`
Above(prs, pr) ==
    Cardinality({ i \in DOMAIN prs : CombinedScore(prs[i]) > CombinedScore(pr) })

\* how many PRs of the list have the combined score of `pr` or more
NotBelow(prs, pr) ==
    Cardinality({ i \in DOMAIN prs : CombinedScore(prs[i]) >= CombinedScore(pr) })

\* C23: in every profile best_pr is the author's ranked candidate of highest
\* combined score, top_prs holds the first min(3, group size) candidates of
\* the author in descending order of combined score, and top_prs[0] is made
\* from the candidate best_pr is made from.
C23_BestAndTop ==
    Answered =>
      LET prs == RankedPrs
      IN  \A e \in Range(Built) :
            LET given == AuthorPrs(prs, e.author)
            IN  /\ \E pr \in Range(given) :
                     /\ Above(given, pr) = 0
                     /\ e.best_pr = BestPr(pr)
                     /\ e.top_prs[1] = TopPr(pr)
                /\ Len(e.top_prs) = Min(3, Len(given))
                /\ \A i \in DOMAIN e.top_prs :
                     \E pr \in Range(given) :
                         /\ e.top_prs[i] = TopPr(pr)
                         /\ Above(given, pr) < i
                         /\ NotBelow(given, pr) >= i

\* a profile has been returned for an author of 20 ranked candidates: its
\* top_prs holds three, the first of them the author's small PR, which has
\* the highest combined score and is the last the author was given with
C23_Witness ==
    /\ Returned
    /\ \E e \in Range(finder.experts) :
         LET given == AuthorPrs(RankedPrs, e.author)
         IN  /\ Len(given) = TopUpTotal
             /\ Len(e.top_prs) = 3
             /\ e.top_prs[1] = TopPr(given[Len(given)])
             /\ e.top_prs[2] # e.top_prs[1]
             /\ e.best_pr = BestPr(given[Len(given)])

(***************************************************************************)
(* Properties of the indexing pipeline.                                    *)
(***************************************************************************)
\* the keys of a search result that combined_score and _rank_experts read
ScoringFields ==
    {"lines_changed", "complexity_score", "impact_score", "has_tests",
     "has_docs", "review_comments_count", "merged_date", "tech_keywords",
     "author"}

\* the record upload_prs was given for a search result
UploadedAs(result) ==
    CHOOSE pr \in Range(indexing.embedded_prs) : pr.pr_id = result.pr_id

\* C24: every field the scoring formula reads has, in each result of search,
\* the value it has in the record given to upload_prs, so that the combined
\* score of the result is that of the record with the same similarity score.
C24_RecordFieldsKept ==
    indexing.stage = "searched" =>
      \A result \in Range(indexing.results) :
        LET pr == UploadedAs(result)
            read == Defaulted(result)
        IN  /\ \A field \in ScoringFields : read[field] = pr[field]
            /\ CombinedScore(read)
                 = CombinedScore([similarity_score |-> result.similarity_score]
                                 @@ pr)

\* the PRs of a list whose text is not empty, in the order of the list
WithText(prs) == SelectSeq(prs, LAMBDA pr : TextOf(pr) # <<>>)

\* the embedding generate_embeddings_batch gives a text
BatchEmbedding(text) ==
    IF text \in indexing.cache \/ indexing.provider_ok
    THEN EmbeddingOf(text) ELSE Zeros

\* C30: embed_prs returns, without raising, one record per PR whose text is
\* not empty, in input order, each a copy of that PR with the text and the
\* embedding of that PR.
C30_EmbedPrsAligned ==
    indexing.stage # "idle" =>
      /\ ~indexing.raised
      /\ LET valid == WithText(indexing.prs)
         IN  indexing.embedded_prs
               = [k \in DOMAIN valid |->
                     [text_for_embedding |-> TextOf(valid[k]),
                      embedding |-> BatchEmbedding(TextOf(valid[k]))]
                     @@ valid[k]]

\* the positions in the list of the author's PRs
Of(prs, author) == { k \in DOMAIN prs : prs[k].author = author }

\* C29: no two profiles of the ranked list have the same author, every ranked
\* candidate with an author is counted in one profile, and each profile's
\* total_relevant_prs, total_lines_changed and substantial_prs_count are the
\* number, the summed lines and the number of substantial ones of its author's
\* ranked candidates.
C29_AuthorPartition ==
    Answered =>
      LET prs == RankedPrs
          built == Built
      IN  /\ \A i, j \in DOMAIN built :
                 i # j => built[i].author # built[j].author
          /\ { e.author : e \in Range(built) } = RankedAuthors
          /\ SeqSum([i \in DOMAIN built |-> built[i].total_relevant_prs])
               = Cardinality({ k \in DOMAIN prs : prs[k].author # "" })
          /\ \A e \in Range(built) :
               LET mine == Of(prs, e.author)
               IN  /\ e.total_relevant_prs = Cardinality(mine)
                   /\ e.total_lines_changed
                        = SumOver([k \in mine |-> prs[k].lines_changed], mine)
                   /\ e.substantial_prs_count
                        = Cardinality({ k \in mine : Substantial(prs[k]) })
                   /\ e.total_relevant_prs >= 1
                   /\ e.substantial_prs_count <= e.total_relevant_prs

\* a call has returned the profiles of two authors, one of them with two
\* ranked candidates of which one is substantial, while a third candidate had
\* no author
C29_Witness ==
    /\ Returned
    /\ Len(finder.experts) = 2
    /\ \E pr \in Range(RankedPrs) : pr.author = ""
    /\ \E e \in Range(finder.experts) :
         /\ e.total_relevant_prs = 2
         /\ e.substantial_prs_count = 1
         /\ e.total_lines_changed = 550

Observed(c, repo) ==
    << GetCachedPrs(c, repo).ret, GetCachedPrs(c, repo).prs,
       GetCacheInfo(c, repo) >>

\* C26: for any two distinct repository names X and Y, names that differ only
\* by '/' against '_' included, cache_prs(X, ...) and invalidate_cache(X)
\* leave what get_cached_prs(Y) and get_cache_info(Y) return unchanged.
C26_PerRepoIsolation ==
    \A X, Y \in SharingRepos :
      X # Y =>
        /\ Observed(InvalidateCache(store, X), Y) = Observed(store, Y)
        /\ \A prs \in FetchLists(X) :
             Observed(CachePrs(store, X, prs, now), Y) = Observed(store, Y)

\* the index of cache c and its payload files agree: each repository in the
\* index has a payload file whose 'repo' is the index key, whose 'cached_at'
\* and 'pr_count' are the index entry's and whose 'prs' has pr_count elements,
\* and the index file holds the in-memory index
IndexPayloadAgreement(c) ==
    /\ \A repo \in DOMAIN c.index :
         LET payload == c.files[GetRepoCachePath(repo)]
             entry == c.index[repo]
         IN  /\ payload.st = "full"
             /\ payload.doc.repo = repo
             /\ payload.doc.cached_at = entry.cached_at
             /\ payload.doc.pr_count = entry.pr_count
             /\ Len(payload.doc.prs) = entry.pr_count
    /\ LoadIndex(c.index_file) = c.index

\* C27: after any sequence of completed cache_prs, get_cached_prs and
\* invalidate_cache calls on one manager, each repository in the index has a
\* payload file whose 'repo' is the index key, whose 'cached_at' and
\* 'pr_count' are the index entry's and whose 'prs' has pr_count elements, and
\* the index file holds the in-memory index.
C27_IndexPayloadAgreement == IndexPayloadAgreement(store)

\* the same agreement in the directory of Spec, whose repository names have
\* payload paths of their own
AgreementOnPathsOfTheirOwn == IndexPayloadAgreement(Cache)


\* the second of the two calls (LaterRun: force_refresh is false and
\* max_cache_age_days >= 1) is made less than one day after the first
SoonAfter ==
    /\ Len(runs) = 2
    /\ runs[2].at - runs[1].at < TicksPerDay

\* the second call makes no fetch for the repository of pass p of the first
\* call and returns the records that pass returned
NotFetchedAgain(p) ==
    \A j \in DOMAIN runs[2].passes :
       runs[2].passes[j].repo = p.repo
         => /\ runs[2].passes[j].fetches = 0
            /\ runs[2].passes[j].contrib = p.contrib

=============================================================================
